---- MODULE Spec2Model ----
(***************************************************************************)
(* A model of the elfo actor runtime core: the per-actor Context           *)
(* (elfo-core/src/context.rs) and the group Supervisor                     *)
(* (elfo-core/src/supervisor.rs).  The mailbox, the request table, the     *)
(* actor object and the address book are collaborators whose code lives    *)
(* in other files of the crate; they are modelled from their description.  *)
(* The last part models the Discovery actor of the network layer           *)
(* (elfo-network/src/discovery/mod.rs): dial loops, the listener, the      *)
(* role handshake and the handlers of the main loop.                       *)
(***************************************************************************)
EXTENDS Integers, Sequences, FiniteSets, TLC

\* ------------------------------------------------------------------ bounds

\* Capacity of every mailbox.
Capacity == 2
\* Number of envelopes the senders create in one behaviour.
MaxMsgs == 3
\* Number of requests the client issues in one behaviour.
MaxReqs == 2
\* Number of envelopes handed to Supervisor::handle in one behaviour.
MaxCalls == 5

\* ------------------------------------------------------------- the universe

\* Addresses of the actors installed in the address book at start.
Actors == {1, 2}
\* Every address a caller may name; 3 was never reserved in the book.
AllAddrs == {1, 2, 3}
\* Payloads of ordinary sends.
Msgs == {"Msg", "Terminate"}
\* What the Demux of the client context may answer for an envelope.
DemuxOutcomes == {<<>>, <<1>>, <<3>>, <<1, 2>>, <<2, 1>>, <<3, 1>>, <<1, 3>>}

VARIABLES
    book,        \* addresses present in the address book
    mailbox,     \* [Actors -> Seq(Envelope)]
    closed,      \* [Actors -> BOOLEAN]: the mailbox is closed
    status,      \* [Actors -> ActorStatus]
    source,      \* [Actors -> "pending" | "ready" | "end"]: the external source
    cli,         \* the client context's send in progress
    nextId,      \* next envelope id
    ret,         \* what the last completed operation returned
    sendLog,     \* ghost: per mailbox, ids in the order successful sends completed
    recvLog,     \* ghost: per mailbox, ids in the order recv/try_recv returned them
    closedAt,    \* ghost: at close, the envelopes accepted so far and those queued
    trueCloses,  \* ghost: how many close() calls returned true, per actor
    reqs,        \* the requester's request table: [request id -> slot]
    held,        \* [Actors -> set of request ids]: tokens the actor body holds
    deposits,    \* ghost: per request, who called respond, in order
    config,      \* [Actors -> config]: the config each actor's Context holds
    objects,     \* the supervisor's map: [Keys -> address, 0 when absent]
    supConfig,   \* the supervisor's last-known config, 0 when unset
    thr,         \* the state of each concurrent Supervisor::handle call
    spawnCount,  \* ghost: how often spawn(key) ran, per key
    addrCount,   \* addresses reserved in the book so far
    conns,       \* Discovery: every connection dialed or accepted, in dial order
    nodeMap,     \* Discovery: [Nodes -> peers known to the node with their groups]
    handed,      \* Discovery: [Nodes -> HandleConnection messages sent to the group]
    thisGroups   \* Discovery: [Nodes -> node_map.this.groups of the node]

ctxVars == <<book, mailbox, closed, status, source, cli, nextId, ret,
             sendLog, recvLog, closedAt, trueCloses>>

reqVars == <<reqs, held, deposits>>

supVars == <<objects, supConfig, thr, spawnCount, addrCount>>

discVars == <<conns, nodeMap, handed, thisGroups>>

coreVars == <<ctxVars, reqVars, config, supVars>>

vars == <<ctxVars, reqVars, config, supVars, discVars>>

\* ------------------------------------------------------------- envelopes

NoEnv == [id |-> 0, msg |-> "None", kind |-> "None", token |-> 0, cfg |-> 0, ahead |-> 0]

\* Envelope::new(message, kind); a request kind carries the response token,
\* which names the request id (0: no token).
NewEnvelope(id, msg, kind, token) ==
    [id |-> id, msg |-> msg, kind |-> kind, token |-> token, cfg |-> 0, ahead |-> 0]

\* ------------------------------------------------------------- the mailbox

\* Mailbox::try_send: Closed after close, Full at capacity.
MailboxTrySend(q, cl) ==
    IF cl THEN "Closed" ELSE IF Len(q) >= Capacity THEN "Full" ELSE "Ok"

\* Mailbox::send completes once there is room or the mailbox is closed.
MailboxSendReady(q, cl) == cl \/ Len(q) < Capacity

\* Mailbox::send, at completion.
MailboxSend(q, cl) == IF cl THEN "Closed" ELSE "Ok"

\* Mailbox::recv is ready with the head, or with end once closed and drained.
MailboxRecvReady(q, cl) == q # <<>> \/ cl

\* Mailbox::try_recv
MailboxTryRecv(q, cl) ==
    IF q # <<>> THEN "Item" ELSE IF cl THEN "Closed" ELSE "Empty"

\* Mailbox::close: true only on the transition open -> closed.
MailboxClose(cl) == ~cl

\* The envelope enters the tail; `ahead` remembers how many were before it.
Enqueue(q, env) == Append(q, [env EXCEPT !.ahead = Len(q)])

\* One completed receive call passed over every envelope left in the queue.
Passed(q) == [i \in 1..Len(q) |-> [q[i] EXCEPT !.ahead = @ - 1]]

\* ------------------------------------------------------------- the actor

ActorStatus == {"Initializing", "Normal", "Terminating", "Terminated"}

StatusRank(s) ==
    CASE s = "Initializing" -> 0
      [] s = "Normal" -> 1
      [] s = "Terminating" -> 2
      [] s = "Terminated" -> 3

\* A setter that lets the status go backwards.
PlainSetStatus(cur, new) == new

\* Actor::set_status: only forward transitions are permitted.
ActorSetStatus(cur, new) ==
    IF StatusRank(new) >= StatusRank(cur) THEN new ELSE cur

\* ------------------------------------------------------------- Context

\* Context::set_status: look the actor up, then set.
ContextSetStatus(a, st) ==
    IF a \in book
    THEN status' = [status EXCEPT ![a] = ActorSetStatus(@, st)]
    ELSE UNCHANGED status

SetStatus(a, st) ==
    /\ ContextSetStatus(a, st)
    /\ ret' = [op |-> "set_status", a |-> a, asked |-> st]
    /\ UNCHANGED <<book, mailbox, closed, source, cli, nextId,
                   sendLog, recvLog, closedAt, trueCloses>>
    /\ UNCHANGED reqVars
    /\ UNCHANGED <<config, supVars, discVars>>

\* close() answers true for every actor that exists.
CloseReturnsPresence(present, transitioned) == present

\* The value of Context::close: false when the address holds no actor,
\* else what the actor's close reports.
CloseReturn(present, transitioned) == present /\ transitioned

Close(a) ==
    LET present == a \in book
        transitioned == present /\ MailboxClose(closed[a])
        res == CloseReturn(present, transitioned)
    IN  /\ closed' = IF present THEN [closed EXCEPT ![a] = TRUE] ELSE closed
        /\ closedAt' = IF transitioned
                       THEN [closedAt EXCEPT ![a] = [total |-> Len(recvLog[a]) + Len(mailbox[a]),
                                                     queued |-> Len(mailbox[a])]]
                       ELSE closedAt
        /\ trueCloses' = IF res /\ a \in Actors /\ trueCloses[a] < 2
                         THEN [trueCloses EXCEPT ![a] = @ + 1]
                         ELSE trueCloses
        /\ ret' = [op |-> "close", a |-> a, res |-> res,
                   wasOpen |-> present /\ ~closed[a],
                   same |-> present => closed'[a] = closed[a]]
        /\ UNCHANGED <<book, mailbox, status, source, cli, nextId, sendLog, recvLog>>
    /\ UNCHANGED reqVars
    /\ UNCHANGED <<config, supVars, discVars>>

\* A try_send_to that reports a full mailbox as a success.
TrySendToDropsFull(present, verdict, msg) ==
    IF ~present THEN [ok |-> FALSE, err |-> "Closed", msg |-> msg]
    ELSE IF verdict \in {"Ok", "Full"} THEN [ok |-> TRUE, err |-> "None", msg |-> "None"]
    ELSE [ok |-> FALSE, err |-> verdict, msg |-> msg]

\* A try_send_to that reports every failure as Closed.
TrySendToOnlyClosed(present, verdict, msg) ==
    IF present /\ verdict = "Ok" THEN [ok |-> TRUE, err |-> "None", msg |-> "None"]
    ELSE [ok |-> FALSE, err |-> "Closed", msg |-> msg]

\* What try_send_to returns: the mailbox's verdict, the message handed back.
TrySendToReturn(present, verdict, msg) ==
    IF ~present THEN [ok |-> FALSE, err |-> "Closed", msg |-> msg]
    ELSE IF verdict = "Ok" THEN [ok |-> TRUE, err |-> "None", msg |-> "None"]
    ELSE [ok |-> FALSE, err |-> verdict, msg |-> msg]

TrySendTo(to, m) ==
    /\ nextId <= MaxMsgs
    /\ LET present == to \in book
           env == NewEnvelope(nextId, m, "Regular", 0)
           verdict == IF present THEN MailboxTrySend(mailbox[to], closed[to]) ELSE "Closed"
           r == TrySendToReturn(present, verdict, m)
       IN  /\ mailbox' = IF present /\ verdict = "Ok"
                         THEN [mailbox EXCEPT ![to] = Enqueue(@, env)]
                         ELSE mailbox
           /\ sendLog' = IF r.ok /\ to \in Actors
                         THEN [sendLog EXCEPT ![to] = Append(@, env.id)]
                         ELSE sendLog
           /\ ret' = [op |-> "try_send_to", a |-> to, res |-> r, sent |-> m,
                      wasClosed |-> present /\ closed[to],
                      wasFull |-> present /\ Len(mailbox[to]) >= Capacity,
                      same |-> present => mailbox'[to] = mailbox[to]]
    /\ nextId' = nextId + 1
    /\ UNCHANGED <<book, closed, status, source, cli, closedAt, trueCloses, recvLog>>
    /\ UNCHANGED reqVars
    /\ UNCHANGED <<config, supVars, discVars>>

\* A send_to that swallows the delivery error.
SendToIgnoresError(present, verdict, msg) ==
    IF present
    THEN [ok |-> TRUE, err |-> "None", msg |-> "None"]
    ELSE [ok |-> FALSE, err |-> "Closed", msg |-> msg]

\* What send_to returns: Ok, or SendError with the message.
SendToReturn(present, verdict, msg) ==
    IF present /\ verdict = "Ok"
    THEN [ok |-> TRUE, err |-> "None", msg |-> "None"]
    ELSE [ok |-> FALSE, err |-> "Closed", msg |-> msg]

SendTo(to, m) ==
    /\ nextId <= MaxMsgs
    /\ to \in book => MailboxSendReady(mailbox[to], closed[to])
    /\ LET present == to \in book
           env == NewEnvelope(nextId, m, "Regular", 0)
           verdict == IF present THEN MailboxSend(mailbox[to], closed[to]) ELSE "Closed"
           r == SendToReturn(present, verdict, m)
       IN  /\ mailbox' = IF present /\ verdict = "Ok"
                         THEN [mailbox EXCEPT ![to] = Enqueue(@, env)]
                         ELSE mailbox
           /\ sendLog' = IF r.ok /\ to \in Actors
                         THEN [sendLog EXCEPT ![to] = Append(@, env.id)]
                         ELSE sendLog
           /\ ret' = [op |-> "send_to", a |-> to, res |-> r, sent |-> m,
                      wasClosed |-> present /\ closed[to],
                      wasFull |-> FALSE,
                      same |-> present => mailbox'[to] = mailbox[to]]
    /\ nextId' = nextId + 1
    /\ UNCHANGED <<book, closed, status, source, cli, closedAt, trueCloses, recvLog>>
    /\ UNCHANGED reqVars
    /\ UNCHANGED <<config, supVars, discVars>>

\* ------------------------------------------------------------- request table

\* The address of the requesting actor (the client context's own address).
Requester == CHOOSE r \in {4} : TRUE

FreeSlot == [state |-> "free", all |-> FALSE, remainder |-> 0, data |-> <<>>]

\* RequestTable::new_request: a slot awaiting the one token handed out.
NewRequest(all) == [state |-> "open", all |-> all, remainder |-> 1, data |-> <<>>]

\* Duplicating a token: one more answer is awaited.
CloneToken(slot) ==
    IF slot.state = "open" THEN [slot EXCEPT !.remainder = @ + 1] ELSE slot

\* RequestTable::respond: Any completes on the response, All appends it.
\* A response to a slot that is no longer open is discarded.
SlotRespond(slot, v) ==
    IF slot.state # "open" THEN slot
    ELSE IF slot.all
    THEN [slot EXCEPT !.data = Append(@, v),
                      !.remainder = @ - 1,
                      !.state = IF slot.remainder = 1 THEN "done" ELSE "open"]
    ELSE [slot EXCEPT !.data = Append(@, v), !.remainder = 0, !.state = "done"]

\* A live token dropped: it counts as one absent (ignored) answer, 0.
SlotDrop(slot) ==
    IF slot.state # "open" THEN slot
    ELSE [slot EXCEPT !.data = Append(@, 0),
                      !.remainder = @ - 1,
                      !.state = IF slot.remainder = 1 THEN "done" ELSE "open"]

RECURSIVE SlotDropN(_, _)
SlotDropN(slot, n) == IF n = 0 THEN slot ELSE SlotDropN(SlotDrop(slot), n - 1)

\* Token copies of request `rid` queued in the mailbox of `a`.
QueuedTokens(a, rid) == Cardinality({i \in 1..Len(mailbox[a]) : mailbox[a][i].token = rid})

\* Token copies of request `rid` in the hands of the body of `a`.
HeldTokens(a, rid) == IF rid \in held[a] THEN 1 ELSE 0

\* A respond that reaches the request table without looking the requester up.
RespondSkipsLookup(slot, present, v) == SlotRespond(slot, v)

\* Context::respond with a live token: the requester is looked up in the
\* book; if it is gone the response is discarded.
ContextRespond(slot, present, v) ==
    IF present THEN SlotRespond(slot, v) ELSE slot

\* ------------------------------------------------------------- receiving

\* What the external source yields when it is ready.
SourceEnvelope ==
    [id |-> 0, msg |-> "Ext", kind |-> "Regular", token |-> 0, cfg |-> 0, ahead |-> 0]

\* A select that polls the external source first.
SourceFirstSelect(mbReady, srcReady) ==
    IF srcReady THEN "source" ELSE IF mbReady THEN "mailbox" ELSE "pending"

\* select_biased! over (mailbox_fut, source_fut): the first ready one in
\* declaration order wins.
RecvSelect(mbReady, srcReady) ==
    IF mbReady THEN "mailbox" ELSE IF srcReady THEN "source" ELSE "pending"

\* A post_recv that hands a Terminate envelope over without touching the status.
PostRecvStatusUntouched(a, env, st) == st

\* post_recv: a Terminate envelope sets the status through Context::set_status.
PostRecvStatus(a, env, st) ==
    IF env.msg = "Terminate" /\ a \in book
    THEN ActorSetStatus(st, "Terminating")
    ELSE st

\* A post_recv that treats no envelope as a config update.
NeverUpdateConfig(env) == FALSE

\* post_recv: the envelope matches (UpdateConfig { config }, token).
IsUpdateConfig(env) == env.msg = "UpdateConfig"

\* post_recv: the envelope handed to the actor body; UpdateConfig is
\* replaced by a fresh ConfigUpdated envelope.
PostRecvEnvelope(a, env) ==
    IF IsUpdateConfig(env)
    THEN NewEnvelope(0, "ConfigUpdated", "Regular", 0)
    ELSE env

\* post_recv on the envelope `got` taken by actor `a`, whose status is `st`:
\* UpdateConfig installs the config and answers the token with Ok; the
\* token of any other request goes to the body with the envelope.
PostRecv(a, got, st) ==
    LET out == PostRecvEnvelope(a, got)
        upd == IsUpdateConfig(got)
    IN  /\ status' = [status EXCEPT ![a] = PostRecvStatus(a, got, st)]
        /\ config' = IF upd THEN [config EXCEPT ![a] = got.cfg] ELSE config
        /\ reqs' = IF upd /\ got.token # 0
                   THEN [reqs EXCEPT ![got.token] = ContextRespond(@, Requester \in book, a)]
                   ELSE reqs
        /\ deposits' = IF upd /\ got.token # 0
                       THEN [deposits EXCEPT ![got.token] = Append(@, a)]
                       ELSE deposits
        /\ held' = IF out.token # 0
                   THEN [held EXCEPT ![a] = @ \cup {out.token}]
                   ELSE held

\* recv/try_recv: an initializing actor becomes Normal.
EnterRecvStatus(st) ==
    IF st = "Initializing" THEN ActorSetStatus(st, "Normal") ELSE st

\* An end of input that leaves the status as it is.
EndKeepsStatus(st) == st

\* recv/try_recv on end of input: set_status(TERMINATING).
EndOfInputStatus(st) == ActorSetStatus(st, "Terminating")

\* recv() called while neither the mailbox nor the source is ready: the call
\* suspends, the status has already left Initializing.
RecvPending(a) ==
    /\ a \in book
    /\ RecvSelect(MailboxRecvReady(mailbox[a], closed[a]), source[a] # "pending") = "pending"
    /\ status[a] = "Initializing"
    /\ status' = [status EXCEPT ![a] = EnterRecvStatus(@)]
    /\ UNCHANGED <<book, mailbox, closed, source, cli, nextId, ret,
                   sendLog, recvLog, closedAt, trueCloses>>
    /\ UNCHANGED reqVars
    /\ UNCHANGED <<config, supVars, discVars>>

NoRecv(op, a) ==
    [op |-> op, a |-> a, from |-> "none", end |-> TRUE, env |-> NoEnv,
     taken |-> 0, got |-> NoEnv, head |-> 0, srcReady |-> FALSE, present |-> FALSE, err |-> "Closed",
     config |-> 0]

\* recv(): completes when the mailbox or the source is ready.
Recv(a) ==
    IF a \notin book
    THEN /\ ret' = NoRecv("recv", a)
         /\ UNCHANGED <<book, mailbox, closed, status, source, cli, nextId,
                        sendLog, recvLog, closedAt, trueCloses, reqVars, config, supVars, discVars>>
    ELSE LET q == mailbox[a]
             sel == RecvSelect(MailboxRecvReady(q, closed[a]), source[a] # "pending")
             fromMb == sel = "mailbox"
             got == IF fromMb
                    THEN (IF q # <<>> THEN Head(q) ELSE NoEnv)
                    ELSE (IF source[a] = "ready" THEN SourceEnvelope ELSE NoEnv)
             isEnd == got = NoEnv
             st1 == EnterRecvStatus(status[a])
         IN  /\ sel # "pending"
             /\ mailbox' = IF q = <<>> THEN mailbox
                           ELSE [mailbox EXCEPT ![a] = Passed(IF fromMb THEN Tail(q) ELSE q)]
             /\ source' = IF ~fromMb /\ source[a] = "ready"
                          THEN [source EXCEPT ![a] = "pending"]
                          ELSE source
             /\ IF isEnd
                THEN /\ status' = [status EXCEPT ![a] = EndOfInputStatus(st1)]
                     /\ UNCHANGED <<reqVars, config>>
                ELSE PostRecv(a, got, st1)
             /\ recvLog' = IF fromMb /\ ~isEnd
                           THEN [recvLog EXCEPT ![a] = Append(@, got.id)]
                           ELSE recvLog
             /\ ret' = [op |-> "recv", a |-> a, from |-> sel, end |-> isEnd,
                        env |-> IF isEnd THEN NoEnv ELSE PostRecvEnvelope(a, got),
                        taken |-> got.id, got |-> got,
                        head |-> IF q # <<>> THEN Head(q).id ELSE 0,
                        srcReady |-> source[a] # "pending", present |-> TRUE,
                        err |-> "None", config |-> config'[a]]
             /\ UNCHANGED <<book, closed, cli, nextId, sendLog, closedAt, trueCloses, supVars, discVars>>

\* try_recv(): polls the mailbox only.
TryRecv(a) ==
    IF a \notin book
    THEN /\ ret' = NoRecv("try_recv", a)
         /\ UNCHANGED <<book, mailbox, closed, status, source, cli, nextId,
                        sendLog, recvLog, closedAt, trueCloses, reqVars, config, supVars, discVars>>
    ELSE LET q == mailbox[a]
             verdict == MailboxTryRecv(q, closed[a])
             st1 == EnterRecvStatus(status[a])
         IN  /\ mailbox' = IF verdict = "Item"
                           THEN [mailbox EXCEPT ![a] = Passed(Tail(q))]
                           ELSE mailbox
             /\ IF verdict = "Item"
                THEN PostRecv(a, Head(q), st1)
                ELSE /\ status' = [status EXCEPT ![a] =
                                     IF verdict = "Closed"
                                     THEN EndOfInputStatus(st1)
                                     ELSE st1]
                     /\ UNCHANGED <<reqVars, config>>
             /\ recvLog' = IF verdict = "Item"
                           THEN [recvLog EXCEPT ![a] = Append(@, Head(q).id)]
                           ELSE recvLog
             /\ ret' = [op |-> "try_recv", a |-> a,
                        from |-> IF verdict = "Item" THEN "mailbox" ELSE "none",
                        end |-> verdict = "Closed",
                        env |-> IF verdict = "Item" THEN PostRecvEnvelope(a, Head(q)) ELSE NoEnv,
                        taken |-> IF verdict = "Item" THEN Head(q).id ELSE 0,
                        got |-> IF verdict = "Item" THEN Head(q) ELSE NoEnv,
                        head |-> IF q # <<>> THEN Head(q).id ELSE 0,
                        srcReady |-> source[a] # "pending", present |-> TRUE,
                        err |-> IF verdict = "Item" THEN "None" ELSE verdict,
                        config |-> config'[a]]
             /\ UNCHANGED <<book, closed, source, cli, nextId, sendLog, closedAt, trueCloses,
                            supVars, discVars>>

\* The external source produces an item.
SourceEmit(a) ==
    /\ source[a] = "pending"
    /\ source' = [source EXCEPT ![a] = "ready"]
    /\ UNCHANGED <<book, mailbox, closed, status, cli, nextId, ret,
                   sendLog, recvLog, closedAt, trueCloses>>
    /\ UNCHANGED reqVars
    /\ UNCHANGED <<config, supVars, discVars>>

\* The external source is exhausted: poll_recv yields None from now on.
SourceEnd(a) ==
    /\ source[a] = "pending"
    /\ source' = [source EXCEPT ![a] = "end"]
    /\ UNCHANGED <<book, mailbox, closed, status, cli, nextId, ret,
                   sendLog, recvLog, closedAt, trueCloses>>
    /\ UNCHANGED reqVars
    /\ UNCHANGED <<config, supVars, discVars>>

\* ------------------------------------------------------------- Context::send

NoResult == [ok |-> FALSE, err |-> "None", msg |-> "None", vec |-> <<>>]

IdleClient ==
    [pc |-> "idle", mode |-> "None", kind |-> "None", msg |-> "None", id |-> 0,
     rid |-> 0, addrs |-> <<>>, i |-> 0, unused |-> FALSE, success |-> FALSE,
     accepted |-> 0, result |-> NoResult]

\* do_send with an empty recipient list, and the end of the loop: Ok if some
\* delivery succeeded, else SendError with the original message.
DoSendReturn(success, msg) ==
    IF success
    THEN [ok |-> TRUE, err |-> "None", msg |-> "None", vec |-> <<>>]
    ELSE [ok |-> FALSE, err |-> "Closed", msg |-> msg, vec |-> <<>>]

\* do_send with one recipient: the object's verdict, or SendError when the
\* address is unknown.
DoSendSingleReturn(present, verdict, msg) ==
    IF present /\ verdict = "Ok"
    THEN [ok |-> TRUE, err |-> "None", msg |-> "None", vec |-> <<>>]
    ELSE [ok |-> FALSE, err |-> "Closed", msg |-> msg, vec |-> <<>>]

\* A loop body that counts every recipient found in the book as a success.
LoopUpdateCountsFound(success, present, verdict) ==
    [unused |-> ~(present /\ verdict = "Ok"),
     success |-> success \/ present]

\* One iteration of do_send's loop: the envelope comes back in `unused` when
\* the recipient is unknown or its mailbox closed; success is sticky.
LoopUpdate(success, present, verdict) ==
    [unused |-> ~(present /\ verdict = "Ok"),
     success |-> success \/ (present /\ verdict = "Ok")]

\* An end of do_send that keeps the original envelope alive.
FinishKeepsOriginal(unused) == IF unused THEN 1 ELSE 0

\* The envelopes do_send still owns when its loop is over and that go out of
\* scope with it: the original one and the leftover of a failed delivery.
FinishDrops(unused) == 1 + (IF unused THEN 1 ELSE 0)

\* resolve() maps a failed dispatch to RequestError::Closed(msg); All wraps
\* it in a vector of one (written -1 here).
DispatchFailed(mode, r) ==
    IF mode = "All" THEN [r EXCEPT !.vec = <<-1>>] ELSE r

\* The first statements of do_send for an envelope of the given kind: the
\* Demux answers `addrs`; no recipient is an error at once.
DoSendStart(mode, kind, m, rid, addrs) ==
    /\ cli.pc = "idle"
    /\ nextId <= MaxMsgs
    /\ cli' = IF addrs = <<>>
              THEN [IdleClient EXCEPT !.pc = "done", !.mode = mode, !.kind = kind,
                                      !.msg = m, !.id = nextId, !.rid = rid,
                                      !.result = DispatchFailed(mode, DoSendReturn(FALSE, m))]
              ELSE [IdleClient EXCEPT !.pc = "sending", !.mode = mode, !.kind = kind,
                                      !.msg = m, !.id = nextId, !.rid = rid,
                                      !.addrs = addrs, !.i = 1]
    /\ nextId' = nextId + 1
    /\ UNCHANGED <<book, mailbox, closed, status, source, ret,
                   sendLog, recvLog, closedAt, trueCloses, held, deposits>>
    /\ UNCHANGED <<config, supVars, discVars>>

\* send(msg)
ClientSend(m, addrs) ==
    /\ DoSendStart("Send", "Regular", m, 0, addrs)
    /\ UNCHANGED reqs

\* request(r).resolve() and request(r).all().resolve(): a new request slot,
\* then the dispatch of the envelope that carries the token.  With no
\* recipient the envelope, and its token, is dropped at once.
ResolveStart(mode, addrs) ==
    /\ mode \in {"Any", "All"}
    /\ nextId <= MaxReqs
    /\ DoSendStart(mode, IF mode = "All" THEN "RequestAll" ELSE "RequestAny",
                   "Req", nextId, addrs)
    /\ reqs' = [reqs EXCEPT ![nextId] =
                   IF addrs = <<>> THEN SlotDrop(NewRequest(mode = "All"))
                   ELSE NewRequest(mode = "All")]

\* Where the client goes when do_send is over.
AfterDispatch(mode, r) ==
    IF mode \in {"Any", "All"} /\ r.ok THEN "waiting" ELSE "done"

\* do_send, one recipient: a single delivery that waits for room.  A failed
\* delivery hands the envelope back; it is dropped with its token.
DoSendSingle ==
    /\ cli.pc = "sending"
    /\ Len(cli.addrs) = 1
    /\ LET to == cli.addrs[1]
           present == to \in book
           env == NewEnvelope(cli.id, cli.msg, cli.kind, cli.rid)
           verdict == IF present THEN MailboxSend(mailbox[to], closed[to]) ELSE "Closed"
           r == DoSendSingleReturn(present, verdict, cli.msg)
           took == present /\ verdict = "Ok"
       IN  /\ present => MailboxSendReady(mailbox[to], closed[to])
           /\ mailbox' = IF took THEN [mailbox EXCEPT ![to] = Enqueue(@, env)] ELSE mailbox
           /\ sendLog' = IF r.ok /\ to \in Actors
                         THEN [sendLog EXCEPT ![to] = Append(@, env.id)]
                         ELSE sendLog
           /\ reqs' = IF cli.rid # 0 /\ ~took
                      THEN [reqs EXCEPT ![cli.rid] = SlotDrop(@)]
                      ELSE reqs
           /\ cli' = [cli EXCEPT !.pc = AfterDispatch(cli.mode, r),
                                 !.result = DispatchFailed(cli.mode, r),
                                 !.accepted = IF took THEN 1 ELSE 0]
    /\ UNCHANGED <<book, closed, status, source, nextId, ret, recvLog, closedAt,
                   trueCloses, held, deposits>>
    /\ UNCHANGED <<config, supVars, discVars>>

\* do_send, several recipients: one iteration of the loop per step (each
\* delivery may wait for room).  An iteration without a leftover envelope
\* duplicates the original, which clones its token.  The last iteration also
\* computes the result and lets go of the envelopes do_send still owns.
DoSendLoop ==
    /\ cli.pc = "sending"
    /\ Len(cli.addrs) > 1
    /\ LET to == cli.addrs[cli.i]
           present == to \in book
           env == NewEnvelope(cli.id, cli.msg, cli.kind, cli.rid)
           verdict == IF present THEN MailboxSend(mailbox[to], closed[to]) ELSE "Closed"
           upd == LoopUpdate(cli.success, present, verdict)
           took == present /\ verdict = "Ok"
           last == cli.i = Len(cli.addrs)
           r == DoSendReturn(upd.success, cli.msg)
           slot1 == IF cli.rid # 0 /\ ~cli.unused
                    THEN CloneToken(reqs[cli.rid])
                    ELSE IF cli.rid # 0 THEN reqs[cli.rid] ELSE FreeSlot
           slot2 == IF last THEN SlotDropN(slot1, FinishDrops(upd.unused)) ELSE slot1
       IN  /\ present => MailboxSendReady(mailbox[to], closed[to])
           /\ mailbox' = IF took THEN [mailbox EXCEPT ![to] = Enqueue(@, env)] ELSE mailbox
           /\ sendLog' = IF ~upd.unused /\ to \in Actors
                         THEN [sendLog EXCEPT ![to] = Append(@, env.id)]
                         ELSE sendLog
           /\ reqs' = IF cli.rid # 0 THEN [reqs EXCEPT ![cli.rid] = slot2] ELSE reqs
           /\ cli' = [cli EXCEPT !.i = @ + 1,
                                 !.unused = upd.unused,
                                 !.success = upd.success,
                                 !.accepted = IF took THEN @ + 1 ELSE @,
                                 !.pc = IF last THEN AfterDispatch(cli.mode, r) ELSE "sending",
                                 !.result = IF last THEN DispatchFailed(cli.mode, r)
                                            ELSE NoResult]
    /\ UNCHANGED <<book, closed, status, source, nextId, ret, recvLog, closedAt,
                   trueCloses, held, deposits>>
    /\ UNCHANGED <<config, supVars, discVars>>

\* The caller took the result; the context is free for the next send.
ClientDone ==
    /\ cli.pc = "done"
    /\ cli' = IdleClient
    /\ UNCHANGED <<book, mailbox, closed, status, source, nextId, ret,
                   sendLog, recvLog, closedAt, trueCloses>>
    /\ UNCHANGED reqVars
    /\ UNCHANGED <<config, supVars, discVars>>

\* ------------------------------------------------------------- resolve, respond

\* An Any result read from the front of the collected answers.
AnyResultTakesFirst(data) ==
    IF data # <<>> /\ data[1] # 0
    THEN [ok |-> TRUE, err |-> "None", msg |-> "None", vec |-> <<data[1]>>]
    ELSE [ok |-> FALSE, err |-> "Ignored", msg |-> "None", vec |-> <<>>]

\* Any: data.pop() is the answer if it is a response, else Ignored.
AnyResult(data) ==
    IF data # <<>> /\ data[Len(data)] # 0
    THEN [ok |-> TRUE, err |-> "None", msg |-> "None", vec |-> <<data[Len(data)]>>]
    ELSE [ok |-> FALSE, err |-> "Ignored", msg |-> "None", vec |-> <<>>]

\* All: one entry per collected answer, Ok for a response and
\* Err(Ignored), 0, for an absent one.
AllResult(data) == [ok |-> TRUE, err |-> "None", msg |-> "None", vec |-> data]

\* resolve(), after a successful dispatch: wait for the slot, take its data.
ClientWait ==
    /\ cli.pc = "waiting"
    /\ reqs[cli.rid].state = "done"
    /\ cli' = [cli EXCEPT !.pc = "done",
                          !.result = IF cli.mode = "All"
                                     THEN AllResult(reqs[cli.rid].data)
                                     ELSE AnyResult(reqs[cli.rid].data)]
    /\ reqs' = [reqs EXCEPT ![cli.rid] = [FreeSlot EXCEPT !.state = "gone"]]
    /\ UNCHANGED <<book, mailbox, closed, status, source, nextId, ret,
                   sendLog, recvLog, closedAt, trueCloses, held, deposits>>
    /\ UNCHANGED <<config, supVars, discVars>>

\* The body of actor `a` answers request `rid`; the response names `a`.
Respond(a, rid) ==
    /\ rid \in held[a]
    /\ held' = [held EXCEPT ![a] = @ \ {rid}]
    /\ reqs' = [reqs EXCEPT ![rid] = ContextRespond(@, Requester \in book, a)]
    /\ deposits' = [deposits EXCEPT ![rid] = Append(@, a)]
    /\ UNCHANGED ctxVars
    /\ UNCHANGED <<config, supVars, discVars>>

\* The body of actor `a` drops the token of request `rid` unanswered.
DropToken(a, rid) ==
    /\ rid \in held[a]
    /\ held' = [held EXCEPT ![a] = @ \ {rid}]
    /\ reqs' = IF Requester \in book
               THEN [reqs EXCEPT ![rid] = SlotDrop(@)]
               ELSE reqs
    /\ UNCHANGED <<ctxVars, deposits>>
    /\ UNCHANGED <<config, supVars, discVars>>

\* Actor `a` ends: its object leaves the book, and the envelopes in its
\* mailbox and the tokens its body held are dropped.
Die(a) ==
    /\ a \in book
    /\ book' = book \ {a}
    /\ closed' = [closed EXCEPT ![a] = TRUE]
    /\ mailbox' = [mailbox EXCEPT ![a] = <<>>]
    /\ held' = [held EXCEPT ![a] = {}]
    /\ reqs' = [r \in DOMAIN reqs |->
                   IF Requester \in book
                   THEN SlotDropN(reqs[r], QueuedTokens(a, r) + HeldTokens(a, r))
                   ELSE reqs[r]]
    /\ UNCHANGED <<status, source, cli, nextId, ret, sendLog, recvLog,
                   closedAt, trueCloses, deposits>>
    /\ UNCHANGED <<config, supVars, discVars>>

\* Context::respond called on the context of `a` with a forgotten token: it
\* returns at once.
RespondForgotten(a) ==
    /\ ret' = [op |-> "respond", a |-> a, forgotten |-> TRUE]
    /\ UNCHANGED <<book, mailbox, closed, status, source, cli, nextId,
                   sendLog, recvLog, closedAt, trueCloses, reqVars>>
    /\ UNCHANGED <<config, supVars, discVars>>

\* The requesting actor ends while it is idle or waiting in resolve(): its
\* object, and its request table with it, leaves the book.
RequesterEnds ==
    /\ Requester \in book
    /\ cli.pc \in {"idle", "waiting"}
    /\ book' = book \ {Requester}
    /\ cli' = IdleClient
    /\ UNCHANGED <<mailbox, closed, status, source, nextId, ret,
                   sendLog, recvLog, closedAt, trueCloses, reqVars>>
    /\ UNCHANGED <<config, supVars, discVars>>

\* ------------------------------------------------------------- the supervisor

\* Router keys of the group, in the order an iteration over `objects` visits them.
KeyOrder == <<"a", "b">>

Keys == {KeyOrder[i] : i \in 1..Len(KeyOrder)}

\* Concurrent callers of Supervisor::handle.
Threads == {"t1", "t2"}

\* Decoded configs.
Configs == {1, 2}

\* What the router may answer for an envelope.
RouterOutcomes ==
    {[kind |-> "Unicast", key |-> k] : k \in Keys}
        \cup {[kind |-> "Broadcast", key |-> "none"], [kind |-> "Discard", key |-> "none"]}

\* The answer slot value of a ConfigRejected response.
Rejected == CHOOSE v \in {-2} : TRUE

IdleThread ==
    [pc |-> "idle", env |-> NoEnv, outcome |-> "None", key |-> "none", obj |-> 0,
     i |-> 1, someone |-> FALSE, waiters |-> <<>>, missed |-> FALSE, spawned |-> FALSE]

\* The RouteReport a handle call returned, with the call's circumstances.
Report(t, kind, addr, env, someone, waiters) ==
    [op |-> "handle", a |-> addr, kind |-> kind, env |-> env,
     someone |-> someone, waiters |-> waiters, outcome |-> thr[t].outcome,
     key |-> thr[t].key, missed |-> thr[t].missed, spawned |-> thr[t].spawned]

\* The shard entry of key `k` is write-locked while a spawn for it is under way.
Locked(k) == \E t \in Threads : thr[t].pc = "spawning" /\ thr[t].key = k

\* The actor task of address `a` has been started.
Started(a) == a <= addrCount

\* ConfigRejected { reason }: the reason the decoder gave for config `c`.
RejectedWith(c) == Rejected - c

\* A rejection that does not carry the decoder's reason.
RejectWithoutReason(slot, present, c) == ContextRespond(slot, present, Rejected)

\* handle, decode failed: respond(token, Err(ConfigRejected { reason })).
RejectReply(slot, present, c) == ContextRespond(slot, present, RejectedWith(c))

\* A supervisor that also keeps a config it was only asked to validate.
StoredConfigOnValidate(old, m, c, ok) == IF ok THEN c ELSE old

\* handle: the config the supervisor holds after an envelope with message
\* `m` and config `c` whose decoding succeeded (`ok`) or failed.
StoredConfig(old, m, c, ok) == IF ok /\ m = "UpdateConfig" THEN c ELSE old

\* handle(ValidateConfig | UpdateConfig): decode; on success UpdateConfig
\* stores the config, and the envelope is broadcast; on failure the token is
\* answered with ConfigRejected and the report is Done.
SupHandleConfig(t, m, c, ok) ==
    /\ thr[t].pc = "idle"
    /\ nextId <= MaxMsgs
    /\ LET env == [NewEnvelope(nextId, m, "RequestAll", nextId) EXCEPT !.cfg = c]
           slot == NewRequest(TRUE)
       IN  /\ supConfig' = StoredConfig(supConfig, m, c, ok)
           /\ reqs' = [reqs EXCEPT ![nextId] =
                         IF ok THEN slot ELSE RejectReply(slot, Requester \in book, c)]
           /\ deposits' = IF ok THEN deposits
                          ELSE [deposits EXCEPT ![nextId] = Append(@, RejectedWith(c))]
           /\ thr' = IF ok
                     THEN [thr EXCEPT ![t] = [IdleThread EXCEPT !.pc = "broadcast",
                                                                !.env = env,
                                                                !.outcome = "Broadcast"]]
                     ELSE thr
           /\ ret' = IF ok THEN ret
                     ELSE [Report(t, "Done", 0, env, FALSE, <<>>) EXCEPT !.outcome = "Rejected"]
    /\ nextId' = nextId + 1
    /\ UNCHANGED <<book, mailbox, closed, status, source, cli, sendLog, recvLog,
                   closedAt, trueCloses, held, config, objects, spawnCount, addrCount>>
    /\ UNCHANGED discVars

\* handle(any other envelope): the router decides; Discard reports Done.
SupHandleRouted(t, outcome) ==
    /\ thr[t].pc = "idle"
    /\ nextId <= MaxCalls
    /\ LET env == NewEnvelope(nextId, "Msg", "Regular", 0)
           call == [IdleThread EXCEPT !.env = env, !.outcome = outcome.kind,
                                      !.key = outcome.key]
       IN  /\ thr' = [thr EXCEPT ![t] =
                        CASE outcome.kind = "Unicast" -> [call EXCEPT !.pc = "lookup"]
                          [] outcome.kind = "Broadcast" -> [call EXCEPT !.pc = "broadcast"]
                          [] OTHER -> IdleThread]
           /\ ret' = IF outcome.kind = "Discard"
                     THEN [Report(t, "Done", 0, NoEnv, FALSE, <<>>) EXCEPT !.outcome = "Discard"]
                     ELSE ret
    /\ nextId' = nextId + 1
    /\ UNCHANGED <<book, mailbox, closed, status, source, cli, sendLog, recvLog,
                   closedAt, trueCloses, reqVars, config, objects, supConfig,
                   spawnCount, addrCount>>
    /\ UNCHANGED discVars

\* A map whose entry counts as vacant once the mailbox of its actor is closed.
OccupiedWhileOpen(obj, cl) == obj # 0 /\ ~cl

\* objects.get(&key) and entry(key): the key is occupied once an object was
\* stored under it, whether or not the mailbox of that actor is closed
\* (`cl`); nothing removes an entry.
Occupied(obj, cl) == obj # 0

\* The mailbox of the actor stored under key `k` is closed.
StoredClosed(k) == objects[k] # 0 /\ closed[objects[k]]

\* Unicast: objects.get(&key).
SupLookup(t) ==
    /\ thr[t].pc = "lookup"
    /\ ~Locked(thr[t].key)
    /\ thr' = [thr EXCEPT ![t] =
                 IF Occupied(objects[thr[t].key], StoredClosed(thr[t].key))
                 THEN [@ EXCEPT !.pc = "trysend", !.obj = objects[thr[t].key]]
                 ELSE [@ EXCEPT !.pc = "entry", !.missed = TRUE]]
    /\ UNCHANGED <<ctxVars, reqVars, config, objects, supConfig, spawnCount, addrCount>>
    /\ UNCHANGED discVars

\* An entry that runs its closure whether or not the key is present.
NeedsSpawnAlways(present) == TRUE

\* entry(key).or_insert_with(..): the closure runs only for a vacant entry.
NeedsSpawn(present) == ~present

\* A spawn that goes on without a config.
ConfigUnsetNever(c) == FALSE

\* spawn(): `.expect("config is unset")` fails on a config that is None.
ConfigUnset(c) == c = 0

\* Unicast after a missed lookup: entry(key) takes the shard's write lock;
\* on a vacant entry spawn() reserves an address, reads the config (it must
\* be set) and starts the actor's task.
SupEntry(t) ==
    /\ thr[t].pc = "entry"
    /\ ~Locked(thr[t].key)
    /\ LET k == thr[t].key
           addr == addrCount + 1
       IN  IF ~NeedsSpawn(Occupied(objects[k], StoredClosed(k)))
           THEN /\ thr' = [thr EXCEPT ![t] = [@ EXCEPT !.pc = "trysend", !.obj = objects[k]]]
                /\ UNCHANGED <<ret, config, spawnCount, addrCount>>
           ELSE IF ConfigUnset(supConfig)
           THEN /\ thr' = [thr EXCEPT ![t] = IdleThread]
                /\ ret' = Report(t, "Panicked", 0, NoEnv, FALSE, <<>>)
                /\ UNCHANGED <<config, spawnCount, addrCount>>
           ELSE /\ addr \in Actors
                /\ addrCount' = addr
                /\ config' = [config EXCEPT ![addr] = supConfig]
                /\ spawnCount' = [spawnCount EXCEPT ![k] = @ + 1]
                /\ thr' = [thr EXCEPT ![t] = [@ EXCEPT !.pc = "spawning", !.obj = addr,
                                                       !.spawned = TRUE]]
                /\ UNCHANGED ret
    /\ UNCHANGED <<book, mailbox, closed, status, source, cli, nextId, sendLog, recvLog,
                   closedAt, trueCloses, reqVars, objects, supConfig>>
    /\ UNCHANGED discVars

\* spawn(), after the task was started: the object is inserted in the book,
\* and the entry of `objects` is filled and unlocked.
SupInsert(t) ==
    /\ thr[t].pc = "spawning"
    /\ book' = book \cup {thr[t].obj}
    /\ objects' = [objects EXCEPT ![thr[t].key] = thr[t].obj]
    /\ thr' = [thr EXCEPT ![t] = [@ EXCEPT !.pc = "trysend"]]
    /\ UNCHANGED <<mailbox, closed, status, source, cli, nextId, ret, sendLog, recvLog,
                   closedAt, trueCloses, reqVars, config, supConfig, spawnCount, addrCount>>
    /\ UNCHANGED discVars

\* The caller lets go of an envelope a report handed back: its token drops.
DropReturned(slots, env) ==
    IF env.token # 0 /\ Requester \in book
    THEN [slots EXCEPT ![env.token] = SlotDrop(@)]
    ELSE slots

\* A report that takes a full mailbox for a closed one.
UnicastReportFullAsClosed(verdict) == IF verdict = "Ok" THEN "Done" ELSE "Closed"

\* Unicast: the report for the result of try_send.
UnicastReport(verdict) ==
    CASE verdict = "Ok" -> "Done"
      [] verdict = "Full" -> "Wait"
      [] verdict = "Closed" -> "Closed"

\* Unicast: try_send into the actor's mailbox; Ok -> Done,
\* Full -> Wait(addr, envelope), Closed -> Closed(envelope).
SupTrySend(t) ==
    /\ thr[t].pc = "trysend"
    /\ LET to == thr[t].obj
           env == thr[t].env
           verdict == MailboxTrySend(mailbox[to], closed[to])
       IN  /\ mailbox' = IF verdict = "Ok"
                         THEN [mailbox EXCEPT ![to] = Enqueue(@, env)]
                         ELSE mailbox
           /\ sendLog' = IF verdict = "Ok"
                         THEN [sendLog EXCEPT ![to] = Append(@, env.id)]
                         ELSE sendLog
           /\ reqs' = IF verdict = "Ok" THEN reqs ELSE DropReturned(reqs, env)
           /\ ret' = Report(t, UnicastReport(verdict), to,
                            IF verdict = "Ok" THEN NoEnv ELSE env, FALSE, <<>>)
    /\ thr' = [thr EXCEPT ![t] = IdleThread]
    /\ UNCHANGED <<book, closed, status, source, cli, nextId, recvLog, closedAt,
                   trueCloses, held, deposits, config, objects, supConfig, spawnCount,
                   addrCount>>
    /\ UNCHANGED discVars

\* Envelope::duplicate: a request cannot be duplicated once its requester
\* has left the book.
CanDuplicate(env) == env.token = 0 \/ Requester \in book

\* Broadcast, one iteration of the loop over `objects`: a copy of the
\* envelope is offered to the actor; a full mailbox adds a waiter, a closed
\* one is skipped.  A failed duplication ends the call with Done.
SupBroadcast(t) ==
    /\ thr[t].pc = "broadcast"
    /\ thr[t].i <= Len(KeyOrder)
    /\ LET k == KeyOrder[thr[t].i]
           to == objects[k]
           env == thr[t].env
           verdict == MailboxTrySend(mailbox[to], closed[to])
           cloned == IF env.token # 0 THEN [reqs EXCEPT ![env.token] = CloneToken(@)] ELSE reqs
       IN  /\ ~Locked(k)
           /\ IF to = 0
              THEN /\ thr' = [thr EXCEPT ![t] = [@ EXCEPT !.i = @ + 1]]
                   /\ UNCHANGED <<mailbox, sendLog, reqs, ret>>
              ELSE IF ~CanDuplicate(env)
              THEN /\ thr' = [thr EXCEPT ![t] = IdleThread]
                   /\ ret' = Report(t, "Done", 0, NoEnv, thr[t].someone, thr[t].waiters)
                   /\ UNCHANGED <<mailbox, sendLog, reqs>>
              ELSE /\ mailbox' = IF verdict = "Ok"
                                 THEN [mailbox EXCEPT ![to] = Enqueue(@, env)]
                                 ELSE mailbox
                   /\ sendLog' = IF verdict = "Ok"
                                 THEN [sendLog EXCEPT ![to] = Append(@, env.id)]
                                 ELSE sendLog
                   /\ reqs' = IF verdict = "Closed" THEN DropReturned(cloned, env) ELSE cloned
                   /\ thr' = [thr EXCEPT ![t] =
                                [@ EXCEPT !.i = @ + 1,
                                          !.someone = @ \/ verdict = "Ok",
                                          !.waiters = IF verdict = "Full"
                                                      THEN Append(@, <<to, env.id>>)
                                                      ELSE @]]
                   /\ UNCHANGED ret
    /\ UNCHANGED <<book, closed, status, source, cli, nextId, recvLog, closedAt,
                   trueCloses, held, deposits, config, objects, supConfig, spawnCount,
                   addrCount>>
    /\ UNCHANGED discVars

\* A broadcast report that forgets the waiters once some mailbox accepted.
BroadcastReportDoneFirst(someone, waiters) ==
    IF someone THEN "Done" ELSE IF waiters = <<>> THEN "Closed" ELSE "WaitAll"

\* The variant of RouteReport a broadcast ends with.
BroadcastReport(someone, waiters) ==
    IF waiters = <<>>
    THEN (IF someone THEN "Done" ELSE "Closed")
    ELSE "WaitAll"

RECURSIVE DropWaiters(_, _, _)
\* The caller lets go of the copies listed in a WaitAll report.
DropWaiters(slots, env, n) ==
    IF n = 0 THEN slots ELSE DropWaiters(DropReturned(slots, env), env, n - 1)

\* Broadcast, after the loop: Done or Closed(envelope) without waiters,
\* WaitAll(someone, waiters) otherwise.
SupBroadcastEnd(t) ==
    /\ thr[t].pc = "broadcast"
    /\ thr[t].i > Len(KeyOrder)
    /\ LET env == thr[t].env
           kind == BroadcastReport(thr[t].someone, thr[t].waiters)
       IN  /\ ret' = Report(t, kind, 0, IF kind = "Closed" THEN env ELSE NoEnv,
                            thr[t].someone, thr[t].waiters)
           /\ reqs' = DropWaiters(DropReturned(reqs, env), env, Len(thr[t].waiters))
    /\ thr' = [thr EXCEPT ![t] = IdleThread]
    /\ UNCHANGED <<book, mailbox, closed, status, source, cli, nextId, sendLog, recvLog,
                   closedAt, trueCloses, held, deposits, config, objects, supConfig,
                   spawnCount, addrCount>>
    /\ UNCHANGED discVars

\* ------------------------------------------------------------- discovery

\* Connections opened or accepted in one behaviour.
MaxConns == 7
\* Failed attempts of one dial loop in one behaviour.
MaxTries == 2
\* Connections made by peers that are not Discovery nodes.
MaxForeign == 2
\* Rounds of one maintenance task in one behaviour.
MaxRounds == 2

\* The nodes running Discovery; node 3 is a peer running other software.
Nodes == {1, 2}

Foreign == 3

Sides == {"dial", "acc"}

\* The usual topology: node 1 runs group 1 "a", interested in "b"; node 2
\* runs group 2 "b", interested in "a".
DefaultGroups ==
    [n \in Nodes |->
        IF n = 1 THEN <<[group_no |-> 1, name |-> "a", interests |-> {"b"}]>>
        ELSE <<[group_no |-> 2, name |-> "b", interests |-> {"a"}]>>]

\* NodeInfo.groups of a node; a peer that is no Discovery node runs none.
GroupsOf(n) == IF n \in Nodes THEN thisGroups[n] ELSE <<>>

INITIAL_WINDOW_SIZE == 100000

\* config.discovery.attempt_interval, in milliseconds.
AttemptInterval == 10000

\* NodeInfo.launch_id of a node, as bits.
LaunchId(n) == 12000 + n

\* open_connection: the delay between two attempts of the dial loop.
RetryDelay(n) == AttemptInterval + (LaunchId(n) % 5000)

\* ---- what travels on a socket

NoWire == [type |-> "none", payload |-> "none", groups |-> <<>>,
           my_group_no |-> 0, your_group_no |-> 0, initial_window |-> 0]

SwitchToControl(groups) == [NoWire EXCEPT !.type = "SwitchToControl",
                                          !.payload = "Regular", !.groups = groups]

SwitchToData(my, your, window) ==
    [NoWire EXCEPT !.type = "SwitchToData", !.payload = "Regular",
                   !.my_group_no = my, !.your_group_no = your, !.initial_window = window]

\* Some other regular message.
Ping == [NoWire EXCEPT !.type = "Ping", !.payload = "Regular"]

Pong == [NoWire EXCEPT !.type = "Pong", !.payload = "Regular"]

\* An envelope whose payload is not NetworkEnvelopePayload::Regular.
ResponseEnvelope == [NoWire EXCEPT !.type = "Response", !.payload = "Response"]

\* The end of the stream: the peer closed the socket or the network failed.
EndOfStream == [NoWire EXCEPT !.type = "EOF"]

NoError == [text |-> "", got |-> "", expected |-> <<>>]

\* An error that does not name the message or the expected ones.
UnexpectedKindError(m, expected) == [NoError EXCEPT !.text = "unexpected message kind"]

\* unexpected_message_error(envelope, expected)
UnexpectedMessageError(m, expected) ==
    [text |-> "unexpected message", got |-> m.type, expected |-> expected]

\* recv(socket): the next envelope must exist and be a regular message.
RecvError(m) ==
    IF m.type = "EOF"
    THEN [NoError EXCEPT !.text = "connection closed before receiving any messages"]
    ELSE IF m.payload # "Regular"
    THEN [NoError EXCEPT !.text = "unexpected message kind"]
    ELSE NoError

NoAccept == [ok |-> FALSE, role |-> NoWire, reply |-> NoWire, err |-> NoError]

\* A reply to SwitchToData that repeats the group numbers as received.
DataReplyUnswapped(m) == SwitchToData(m.my_group_no, m.your_group_no, INITIAL_WINDOW_SIZE)

\* accept_connection, role Unknown: the reply to the dialer's SwitchToData.
DataReply(m) == SwitchToData(m.your_group_no, m.my_group_no, INITIAL_WINDOW_SIZE)

\* accept_connection, role Unknown, on the first envelope `m` read by node
\* `this`: the role committed, the reply sent, or the error.
AcceptUnknown(this, m) ==
    IF RecvError(m) # NoError THEN [NoAccept EXCEPT !.err = RecvError(m)]
    ELSE IF m.type = "SwitchToControl"
    THEN [NoAccept EXCEPT !.ok = TRUE, !.role = m,
                          !.reply = SwitchToControl(GroupsOf(this))]
    ELSE IF m.type = "SwitchToData"
    THEN [NoAccept EXCEPT !.ok = TRUE, !.role = m, !.reply = DataReply(m)]
    ELSE [NoAccept EXCEPT !.err =
              UnexpectedMessageError(m, <<"SwitchToControl", "SwitchToData">>)]

\* accept_connection, role Control(msg) or Data(msg), on the answer `m` to
\* the message sent: recv_regular of the same message type.
AcceptAnswer(sent, m) ==
    IF RecvError(m) # NoError THEN [NoAccept EXCEPT !.err = RecvError(m)]
    ELSE IF m.type = sent.type THEN [NoAccept EXCEPT !.ok = TRUE, !.role = m]
    ELSE [NoAccept EXCEPT !.err = UnexpectedMessageError(m, <<sent.type>>)]

\* ---- infer_connections

RECURSIVE InferFrom(_, _, _, _)
InferFrom(one, two, i, j) ==
    IF i > Len(one) THEN <<>>
    ELSE IF j > Len(two) THEN InferFrom(one, two, i + 1, 1)
    ELSE (IF two[j].name \in one[i].interests
          THEN << <<one[i].group_no, two[j].group_no>> >>
          ELSE <<>>) \o InferFrom(one, two, i, j + 1)

\* An inference that pairs every group with every group.
InferConnectionsAll(one, two) ==
    InferFrom([i \in 1..Len(one) |->
                  [one[i] EXCEPT !.interests = {two[j].name : j \in 1..Len(two)}]],
              two, 1, 1)

\* infer_connections(one, two): (o.group_no, t.group_no) for every group o
\* of `one` and every group t of `two` whose name o is interested in.
InferConnections(one, two) == InferFrom(one, two, 1, 1)

Swapped(pairs) == [k \in 1..Len(pairs) |-> <<pairs[k][2], pairs[k][1]>>]

\* The pairs of one direction only.
PairsToOpenOneWay(this, remote) == InferConnections(this, remote)

\* on_connection_accepted: the (local, remote) group pairs the initiator
\* dials, the pairs inferred from the remote side's interests first.
PairsToOpen(this, remote) ==
    Swapped(InferConnections(remote, this)) \o InferConnections(this, remote)

\* groups.iter().find(|g| g.group_no == no).map(|g| g.name): "" when absent.
RECURSIVE FindGroupFrom(_, _, _)
FindGroupFrom(groups, no, k) ==
    IF k > Len(groups) THEN ""
    ELSE IF groups[k].group_no = no THEN groups[k].name
    ELSE FindGroupFrom(groups, no, k + 1)

FindGroup(groups, no) == FindGroupFrom(groups, no, 1)

\* The role of a dial is Data.
IsDataRole(role) == role.type = "SwitchToData"

\* ---- connections

NoSide == [pc |-> "none", got |-> NoWire, err |-> NoError]

\* control_maintenance of one side: the statement of the loop it is at and
\* the rounds it has completed.
LoopStart == [at |-> "sendPing", rounds |-> 0]

\* open_connection(transport, role) called on node `n`: a dial loop.  The
\* transport is named by the node it leads to.
NewDial(n, transport, role) ==
    [from |-> n, to |-> transport, role |-> role,
     dial |-> [NoSide EXCEPT !.pc = "connecting"], acc |-> NoSide,
     toAcc |-> <<>>, toDial |-> <<>>, tries |-> 0, delay |-> 0, emitted |-> 0,
     loop |-> [dial |-> LoopStart, acc |-> LoopStart]]

\* discover_one(transport) on node `n`
DiscoverOne(n, transport) == NewDial(n, transport, SwitchToControl(GroupsOf(n)))

\* discover() on node `n`: discover_one for every predefined transport.
Discover(n, predefined) == [k \in 1..Len(predefined) |-> DiscoverOne(n, predefined[k])]

\* The node running a side of the connection, and its peer.
NodeOf(c, side) == IF side = "dial" THEN c.from ELSE c.to

PeerOf(c, side) == IF side = "dial" THEN c.to ELSE c.from

\* ConnectionEstablished.transport: Some for the dialer, None (0) for the listener.
TransportOf(c, side) == IF side = "dial" THEN c.to ELSE 0

Inbound(side) == IF side = "dial" THEN "toDial" ELSE "toAcc"

Outbound(side) == IF side = "dial" THEN "toAcc" ELSE "toDial"

\* The side lets go of its socket: the peer finds the end of the stream.
DropSocket(c, side) ==
    IF c[Outbound(side)] # <<>> /\ c[Outbound(side)][Len(c[Outbound(side)])] = EndOfStream
    THEN c
    ELSE [c EXCEPT ![Outbound(side)] = Append(@, EndOfStream)]

NoInfo == [known |-> FALSE, groups |-> <<>>]

\* Discovery::new: the node map knows no peer.
InitMaps ==
    /\ nodeMap = [n \in Nodes |-> [p \in Nodes \cup {Foreign} |-> NoInfo]]
    /\ handed = [n \in Nodes |-> <<>>]

\* Discovery::new in the usual topology.
InitNodes ==
    /\ InitMaps
    /\ thisGroups = DefaultGroups

\* No Discovery actor runs.
InitDiscovery ==
    /\ conns = <<>>
    /\ InitNodes

\* ---- the dial loop and the listener

\* A dial loop that takes every successful connect.
ConnectEmitsAlways(ok, peer, node_no) == ok

\* open_connection: a connect yields ConnectionEstablished when it succeeded
\* and the peer is another node.
ConnectEmits(ok, peer, node_no) == ok /\ peer # node_no

\* listen: a socket accepted from the node itself is filtered out.
ListenEmits(peer, node_no) == peer # node_no

\* One turn of the loop of open_connection: connect; on success with another
\* node the stream yields ConnectionEstablished { role, Some(transport) } and
\* ends, while the peer's listener yields ConnectionEstablished { Unknown,
\* None }; otherwise the loop sleeps for the delay and goes round.
DialConnect(i, ok) ==
    /\ i \in 1..Len(conns)
    /\ conns[i].dial.pc = "connecting"
    /\ LET c == conns[i]
           emits == ConnectEmits(ok, c.to, c.from)
           listens == ok /\ c.to \in Nodes /\ ListenEmits(c.from, c.to)
       IN /\ emits \/ c.tries < MaxTries
          /\ conns' = [conns EXCEPT ![i] =
                 IF emits
                 THEN [c EXCEPT !.dial.pc = "established",
                                !.acc.pc = IF listens THEN "established" ELSE "none",
                                !.emitted = @ + 1]
                 ELSE [c EXCEPT !.tries = @ + 1, !.delay = RetryDelay(c.from)]]
    /\ UNCHANGED <<nodeMap, handed, thisGroups, coreVars>>

\* What a peer outside the two nodes may send first: its groups, a request
\* for a data connection with a window of its own, some other message, an
\* envelope that is not a regular message, or nothing before it closes.
FirstInputs ==
    {SwitchToControl(<<[group_no |-> Foreign, name |-> "c", interests |-> {"a"}]>>),
     SwitchToData(Foreign, 1, 1), Ping, ResponseEnvelope, EndOfStream}

\* A peer that is not one of the two nodes connects to the listener of node
\* `n` and sends `m` and then a Ping, or closes at once.
ForeignConnect(n, m) ==
    /\ Len(conns) < MaxConns
    /\ Cardinality({i \in 1..Len(conns) : conns[i].from = Foreign}) < MaxForeign
    /\ conns' = Append(conns,
           [NewDial(Foreign, n, m) EXCEPT
                !.dial.pc = "foreign",
                !.acc.pc = IF ListenEmits(Foreign, n) THEN "established" ELSE "none",
                !.toAcc = IF m = EndOfStream THEN <<m>> ELSE <<m, Ping>>])
    /\ UNCHANGED <<nodeMap, handed, thisGroups, coreVars>>

\* main, ConnectionEstablished: on_connection_established attaches the
\* stream that runs accept_connection.  With a role the task first sends the
\* role's message; then either side waits for an envelope.
OnConnectionEstablished(i, side) ==
    /\ i \in 1..Len(conns)
    /\ conns[i][side].pc = "established"
    /\ conns' = [conns EXCEPT ![i] =
           IF side = "dial"
           THEN [@ EXCEPT !.dial.pc = "awaiting", !.toAcc = Append(@, conns[i].role)]
           ELSE [@ EXCEPT !.acc.pc = "awaiting"]]
    /\ UNCHANGED <<nodeMap, handed, thisGroups, coreVars>>

\* accept_connection, the envelope arrives: the acceptor commits the role it
\* was asked for and replies, the dialer commits the role of the answer.  An
\* error ends the task with ConnectionRejected { error }; the socket is gone.
HandshakeRead(i, side) ==
    /\ i \in 1..Len(conns)
    /\ conns[i][side].pc = "awaiting"
    /\ conns[i][Inbound(side)] # <<>>
    /\ LET c == conns[i]
           m == Head(c[Inbound(side)])
           r == IF side = "acc" THEN AcceptUnknown(c.to, m) ELSE AcceptAnswer(c.role, m)
           read == [c EXCEPT ![Inbound(side)] = IF m = EndOfStream THEN @ ELSE Tail(@)]
           replied == IF r.reply # NoWire
                      THEN [read EXCEPT ![Outbound(side)] = Append(@, r.reply)]
                      ELSE read
       IN conns' = [conns EXCEPT ![i] =
              IF r.ok
              THEN [replied EXCEPT ![side] = [pc |-> "accepted", got |-> r.role, err |-> NoError]]
              ELSE DropSocket([read EXCEPT ![side] =
                                   [pc |-> "rejected", got |-> NoWire, err |-> r.err]], side)]
    /\ UNCHANGED <<nodeMap, handed, thisGroups, coreVars>>

\* The data connections the initiator dials for an accepted control connection.
DataDials(this, transport, pairs) ==
    [k \in 1..Len(pairs) |->
        NewDial(this, transport,
                SwitchToData(pairs[k][1], pairs[k][2], INITIAL_WINDOW_SIZE))]

\* A HandleConnection that takes the peer's numbering for its own.
HandleConnectionUnswapped(this, peer, remote, localName, remoteName, transport) ==
    [local |-> [node_no |-> this, group_no |-> remote.my_group_no, group_name |-> localName],
     remote |-> [node_no |-> peer, group_no |-> remote.your_group_no, group_name |-> remoteName],
     transport |-> transport, initial_window |-> remote.initial_window]

\* HandleConnection { local, remote, transport, initial_window }
HandleConnection(this, peer, remote, localName, remoteName, transport) ==
    [local |-> [node_no |-> this, group_no |-> remote.your_group_no, group_name |-> localName],
     remote |-> [node_no |-> peer, group_no |-> remote.my_group_no, group_name |-> remoteName],
     transport |-> transport, initial_window |-> remote.initial_window]

\* main, ConnectionAccepted: on_connection_accepted.  Control: the peer's
\* groups enter the node map, the maintenance task starts, and the
\* initiator (the side that knows the transport) dials a data connection
\* for every inferred pair.  Data: the group names are looked up; if one is
\* missing the socket is dropped, else the connection goes to the group.
OnConnectionAccepted(i, side) ==
    /\ i \in 1..Len(conns)
    /\ conns[i][side].pc = "accepted"
    /\ LET c == conns[i]
           this == NodeOf(c, side)
           peer == PeerOf(c, side)
           remote == c[side].got
       IN IF remote.type = "SwitchToControl"
          THEN LET pairs == IF TransportOf(c, side) = 0 THEN <<>>
                            ELSE PairsToOpen(GroupsOf(this), remote.groups)
                   dials == DataDials(this, TransportOf(c, side), pairs)
               IN /\ Len(conns) + Len(dials) <= MaxConns
                  /\ nodeMap' = [nodeMap EXCEPT ![this][peer] =
                                     [known |-> TRUE, groups |-> remote.groups]]
                  /\ conns' = [conns EXCEPT ![i][side].pc = "up"] \o dials
                  /\ UNCHANGED handed
          ELSE LET local_group_name == FindGroup(GroupsOf(this), remote.your_group_no)
                   remote_group_name ==
                       IF nodeMap[this][peer].known
                       THEN FindGroup(nodeMap[this][peer].groups, remote.my_group_no)
                       ELSE ""
               IN IF local_group_name = "" \/ remote_group_name = ""
                  THEN /\ conns' = [conns EXCEPT ![i] =
                                        DropSocket([c EXCEPT ![side].pc = "dropped"], side)]
                       /\ UNCHANGED <<nodeMap, handed>>
                  ELSE /\ conns' = [conns EXCEPT ![i][side].pc = "up"]
                       /\ handed' = [handed EXCEPT ![this] = Append(@,
                              HandleConnection(this, peer, remote, local_group_name,
                                               remote_group_name, TransportOf(c, side)))]
                       /\ UNCHANGED nodeMap
    /\ UNCHANGED <<thisGroups, coreVars>>

\* main, ConnectionRejected: on_connection_rejected does nothing.
OnConnectionRejected(i, side) ==
    /\ i \in 1..Len(conns)
    /\ conns[i][side].pc = "rejected"
    /\ conns' = [conns EXCEPT ![i][side].pc = "closed"]
    /\ UNCHANGED <<nodeMap, handed, thisGroups, coreVars>>

\* The network between the two sockets of a connection fails: each side
\* finds the end of its stream.
NetworkError(i) ==
    /\ i \in 1..Len(conns)
    /\ conns[i].dial.pc \in {"established", "awaiting", "accepted", "up"}
    /\ conns[i].acc.pc \in {"established", "awaiting", "accepted", "up"}
    /\ EndOfStream \notin {conns[i].toAcc[k] : k \in 1..Len(conns[i].toAcc)}
    /\ EndOfStream \notin {conns[i].toDial[k] : k \in 1..Len(conns[i].toDial)}
    /\ conns' = [conns EXCEPT ![i].toAcc = Append(@, EndOfStream),
                              ![i].toDial = Append(@, EndOfStream)]
    /\ UNCHANGED <<nodeMap, handed, thisGroups, coreVars>>

\* control_maintenance: the ping loop runs until the socket fails, and the
\* stream then yields ControlConnectionFailed { transport }.
MaintenanceFails(i, side) ==
    /\ i \in 1..Len(conns)
    /\ conns[i][side].pc = "up"
    /\ conns[i][side].got.type = "SwitchToControl"
    /\ conns[i][Inbound(side)] # <<>>
    /\ Head(conns[i][Inbound(side)]) = EndOfStream
    /\ conns' = [conns EXCEPT ![i] = DropSocket([@ EXCEPT ![side].pc = "failed"], side)]
    /\ UNCHANGED <<nodeMap, handed, thisGroups, coreVars>>

\* ---- control_maintenance, statement by statement

\* The statement that follows `at` in the loop.
NextStatement(at) ==
    CASE at = "sendPing" -> "recvPing"
      [] at = "recvPing" -> "sendPong"
      [] at = "sendPong" -> "recvPong"
      [] at = "recvPong" -> "sleep"
      [] OTHER -> "sendPing"

\* The message a send statement writes and a recv statement expects.
LoopMessage(at) == IF at \in {"sendPing", "recvPing"} THEN Ping ELSE Pong

\* A recv_regular that takes any regular message.
RecvRegularAny(m, expected) == RecvError(m)

\* recv_regular::<M>(socket): the error for envelope `m`, NoError for an M.
RecvRegular(m, expected) ==
    IF RecvError(m) # NoError THEN RecvError(m)
    ELSE IF m.type = expected.type THEN NoError
    ELSE UnexpectedMessageError(m, <<expected.type>>)

\* The side of control connection `i` runs its maintenance task.
Maintains(i, side) ==
    /\ i \in 1..Len(conns)
    /\ conns[i][side].pc = "up"
    /\ conns[i][side].got.type = "SwitchToControl"

\* The peer's socket is gone or the network has failed.
LinkDown(c, side) ==
    EndOfStream \in {c[Inbound(side)][k] : k \in 1..Len(c[Inbound(side)])}

\* The task ends with an error: the socket is dropped and the stream yields
\* ControlConnectionFailed { transport }.
MaintenanceEnds(c, side, err) ==
    DropSocket([c EXCEPT ![side].pc = "failed", ![side].err = err], side)

\* send_regular(socket, Ping | Pong): the envelope is written; on a link
\* that is down the write may fail instead.
MaintenanceSend(i, side, ok) ==
    /\ Maintains(i, side)
    /\ conns[i].loop[side].at \in {"sendPing", "sendPong"}
    /\ LET c == conns[i]
           at == c.loop[side].at
       IN IF ok
          THEN conns' = [conns EXCEPT
                   ![i][Outbound(side)] = IF LinkDown(c, side) THEN @
                                          ELSE Append(@, LoopMessage(at)),
                   ![i].loop[side].at = NextStatement(at)]
          ELSE /\ LinkDown(c, side)
               /\ conns' = [conns EXCEPT ![i] =
                      MaintenanceEnds(c, side, [NoError EXCEPT !.text = "cannot send"])]
    /\ UNCHANGED <<nodeMap, handed, thisGroups, coreVars>>

\* recv_regular::<Ping | Pong>(socket): the expected message lets the loop
\* go on, anything else and the end of the stream end the task.
MaintenanceRecv(i, side) ==
    /\ Maintains(i, side)
    /\ conns[i].loop[side].at \in {"recvPing", "recvPong"}
    /\ conns[i][Inbound(side)] # <<>>
    /\ LET c == conns[i]
           at == c.loop[side].at
           m == Head(c[Inbound(side)])
           err == RecvRegular(m, LoopMessage(at))
           read == [c EXCEPT ![Inbound(side)] = IF m = EndOfStream THEN @ ELSE Tail(@)]
       IN conns' = [conns EXCEPT ![i] =
              IF err = NoError
              THEN [read EXCEPT !.loop[side] =
                       [at |-> NextStatement(at),
                        rounds |-> IF at = "recvPong" THEN @.rounds + 1 ELSE @.rounds]]
              ELSE MaintenanceEnds(read, side, err)]
    /\ UNCHANGED <<nodeMap, handed, thisGroups, coreVars>>

\* tokio::time::sleep(10 s) is over.
MaintenanceSleep(i, side) ==
    /\ Maintains(i, side)
    /\ conns[i].loop[side].at = "sleep"
    /\ conns[i].loop[side].rounds < MaxRounds
    /\ conns' = [conns EXCEPT ![i].loop[side].at = NextStatement("sleep")]
    /\ UNCHANGED <<nodeMap, handed, thisGroups, coreVars>>

\* What a peer that is no Discovery node may send on a control connection.
ForeignInputs == {Ping, Pong, ResponseEnvelope, EndOfStream}

\* The peer that is no Discovery node sends `m` on its connection `i`.
ForeignSays(i, m) ==
    /\ i \in 1..Len(conns)
    /\ conns[i].from = Foreign
    /\ conns[i].acc.pc = "up"
    /\ Len(conns[i].toAcc) < 2
    /\ ~LinkDown(conns[i], "acc")
    /\ conns' = [conns EXCEPT ![i].toAcc = Append(@, m)]
    /\ UNCHANGED <<nodeMap, handed, thisGroups, coreVars>>

\* A handler that dials again whoever reports the failure.
RedialsAlways(transport) == TRUE

\* A handler that leaves every failed control connection alone.
RedialsNever(transport) == FALSE

\* main, ControlConnectionFailed: `if let Some(transport) = msg.transport`.
Redials(transport) == transport # 0

\* main, ControlConnectionFailed: the initiator runs discover_one again.
OnControlConnectionFailed(i, side) ==
    /\ i \in 1..Len(conns)
    /\ conns[i][side].pc = "failed"
    /\ LET c == conns[i]
           closed1 == [conns EXCEPT ![i][side].pc = "closed"]
       IN IF Redials(TransportOf(c, side))
          THEN /\ Len(conns) < MaxConns
               /\ conns' = Append(closed1, DiscoverOne(NodeOf(c, side), PeerOf(c, side)))
          ELSE conns' = closed1
    /\ UNCHANGED <<nodeMap, handed, thisGroups, coreVars>>

\* DataConnectionFailed { local, remote, transport }, as the worker that was
\* handed the dialed side of connection `c` reports it: its own group, the
\* peer's node and group, and the transport of its HandleConnection.
DataConnectionFailed(c) ==
    [local |-> c.dial.got.your_group_no,
     remote |-> <<c.to, c.dial.got.my_group_no>>,
     transport |-> TransportOf(c, "dial")]

\* The worker of a data connection finds the end of its stream and lets go
\* of the socket.  The worker of the dialed side, which was given the
\* transport, reports DataConnectionFailed to Discovery.
WorkerFails(i, side) ==
    /\ i \in 1..Len(conns)
    /\ conns[i][side].pc = "up"
    /\ conns[i][side].got.type = "SwitchToData"
    /\ conns[i][Inbound(side)] # <<>>
    /\ Head(conns[i][Inbound(side)]) = EndOfStream
    /\ conns' = [conns EXCEPT ![i] =
           DropSocket([@ EXCEPT ![side].pc = IF side = "dial" THEN "dataFailed" ELSE "closed"],
                      side)]
    /\ UNCHANGED <<nodeMap, handed, thisGroups, coreVars>>

\* A handler that asks for the peer's group under its own number.
RedialRoleLocalOnly(msg) == SwitchToData(msg.local, msg.local, INITIAL_WINDOW_SIZE)

\* main, DataConnectionFailed: the role of the new dial.
RedialRole(msg) == SwitchToData(msg.local, msg.remote[2], INITIAL_WINDOW_SIZE)

\* main, DataConnectionFailed: after a sleep of one second the pair is
\* dialed again on the transport of the message.
OnDataConnectionFailed(i) ==
    /\ i \in 1..Len(conns)
    /\ conns[i].dial.pc = "dataFailed"
    /\ Len(conns) < MaxConns
    /\ LET msg == DataConnectionFailed(conns[i])
       IN conns' = Append([conns EXCEPT ![i].dial.pc = "closed"],
                          NewDial(conns[i].from, msg.transport, RedialRole(msg)))
    /\ UNCHANGED <<nodeMap, handed, thisGroups, coreVars>>

\* ------------------------------------------------------------- specification

NoRet == [op |-> "none", a |-> 0]

InitCore ==
    /\ mailbox = [a \in Actors |-> <<>>]
    /\ closed = [a \in Actors |-> FALSE]
    /\ status = [a \in Actors |-> "Initializing"]
    /\ source = [a \in Actors |-> "pending"]
    /\ cli = IdleClient
    /\ nextId = 1
    /\ ret = NoRet
    /\ sendLog = [a \in Actors |-> <<>>]
    /\ recvLog = [a \in Actors |-> <<>>]
    /\ closedAt = [a \in Actors |-> [total |-> 0, queued |-> 0]]
    /\ trueCloses = [a \in Actors |-> 0]
    /\ reqs = [r \in 1..MaxMsgs |-> FreeSlot]
    /\ held = [a \in Actors |-> {}]
    /\ deposits = [r \in 1..MaxMsgs |-> <<>>]
    /\ config = [a \in Actors |-> 0]
    /\ objects = [k \in Keys |-> 0]
    /\ supConfig = 0
    /\ thr = [t \in Threads |-> IdleThread]
    /\ spawnCount = [k \in Keys |-> 0]
    /\ addrCount = 0

InitCommon ==
    /\ InitCore
    /\ InitDiscovery

Init ==
    /\ book = Actors
    /\ InitCommon

\* The context whose owner operations are exercised: actor 1, and a context
\* whose address (3) holds no actor.
Owners == {1, 3}

\* The owner's operations against concurrent direct senders.
Next ==
    \/ \E a \in Owners, st \in ActorStatus : SetStatus(a, st)
    \/ \E a \in Owners : Close(a)
    \/ \E to \in Owners, m \in Msgs : TrySendTo(to, m)
    \/ \E to \in Owners, m \in Msgs : SendTo(to, m)
    \/ \E a \in Owners : Recv(a)
    \/ \E a \in Owners : TryRecv(a)
    \/ RecvPending(1)
    \/ SourceEmit(1)
    \/ SourceEnd(1)

Spec == Init /\ [][Next]_vars

\* Context::send through the Demux against a direct sender and the receivers.
NextSend ==
    \/ \E addrs \in DemuxOutcomes : ClientSend("Msg", addrs)
    \/ DoSendSingle
    \/ DoSendLoop
    \/ ClientDone
    \/ TrySendTo(1, "Msg")
    \/ \E a \in Actors : Recv(a)
    \/ \E a \in Actors : Close(a)

SpecSend == Init /\ [][NextSend]_vars

\* The requester is an actor of its own, installed in the book.
InitReq ==
    /\ book = Actors \cup {Requester}
    /\ InitCommon

\* Requests of the client context against recipients that answer, drop the
\* token, or end.
NextReq ==
    \/ \E mode \in {"Any", "All"}, addrs \in DemuxOutcomes : ResolveStart(mode, addrs)
    \/ DoSendSingle
    \/ DoSendLoop
    \/ ClientWait
    \/ ClientDone
    \/ \E a \in Actors : TryRecv(a)
    \/ \E a \in Actors, rid \in 1..MaxMsgs : Respond(a, rid)
    \/ \E a \in Actors, rid \in 1..MaxMsgs : DropToken(a, rid)
    \/ \E a \in Actors : Die(a)

SpecReq == InitReq /\ [][NextReq]_vars

\* The wait of resolve() is a task the runtime keeps polling.
FairSpecReq == SpecReq /\ WF_vars(ClientWait)

\* Recipients that answer requests, with live and with forgotten tokens,
\* while the requester may end before the answers arrive.
NextRespond ==
    \/ \E mode \in {"Any", "All"}, addrs \in DemuxOutcomes :
          Requester \in book /\ ResolveStart(mode, addrs)
    \/ DoSendSingle
    \/ DoSendLoop
    \/ ClientWait
    \/ ClientDone
    \/ \E a \in Actors : TryRecv(a)
    \/ \E a \in Actors, rid \in 1..MaxMsgs : Respond(a, rid)
    \/ \E a \in Actors : RespondForgotten(a)
    \/ RequesterEnds

SpecRespond == InitReq /\ [][NextRespond]_vars

\* The supervisor starts with no actors and no config; the configurer that
\* sends the config requests is the only object in the book.
InitSup ==
    /\ book = {Requester}
    /\ InitCommon

\* Concurrent handle calls against the actors they spawn: the first caller
\* delivers config updates and envelopes of every routing outcome, the
\* second envelopes routed to one key.
NextSup ==
    \/ \E c \in Configs : SupHandleConfig("t1", "UpdateConfig", c, TRUE)
    \/ \E outcome \in RouterOutcomes : nextId <= MaxMsgs /\ SupHandleRouted("t1", outcome)
    \/ \E k \in Keys :
          nextId <= MaxMsgs /\ SupHandleRouted("t2", [kind |-> "Unicast", key |-> k])
    \/ \E t \in Threads : SupLookup(t)
    \/ \E t \in Threads : SupEntry(t)
    \/ \E t \in Threads : SupInsert(t)
    \/ \E t \in Threads : SupTrySend(t)
    \/ \E t \in Threads : SupBroadcast(t)
    \/ \E t \in Threads : SupBroadcastEnd(t)
    \/ \E a \in Actors : Started(a) /\ Recv(a)
    \/ Started(1) /\ Close(1)

SpecSup == InitSup /\ [][NextSup]_vars

\* One caller of handle and the life of the actor it spawns under key "a":
\* the actor's task receives from its mailbox and its source, sets its
\* status and closes its mailbox.
NextActor ==
    \/ \E m \in {"ValidateConfig", "UpdateConfig"}, c \in Configs, ok \in BOOLEAN :
          SupHandleConfig("t1", m, c, ok)
    \/ nextId <= MaxMsgs /\ SupHandleRouted("t1", [kind |-> "Unicast", key |-> "a"])
    \/ SupLookup("t1")
    \/ SupEntry("t1")
    \/ SupInsert("t1")
    \/ SupTrySend("t1")
    \/ SupBroadcast("t1")
    \/ SupBroadcastEnd("t1")
    \/ Started(1) /\ Recv(1)
    \/ Started(1) /\ TryRecv(1)
    \/ Started(1) /\ RecvPending(1)
    \/ Started(1) /\ Close(1)
    \/ Started(1) /\ SourceEmit(1)
    \/ Started(1) /\ SourceEnd(1)
    \/ \E st \in ActorStatus : Started(1) /\ SetStatus(1, st)

SpecActor == InitSup /\ [][NextActor]_vars

\* One caller sending a config update and then envelopes routed to key "a",
\* whose actor receives and may close its mailbox.
NextUnicast ==
    \/ SupHandleConfig("t1", "UpdateConfig", 1, TRUE)
    \/ SupBroadcast("t1")
    \/ SupBroadcastEnd("t1")
    \/ SupHandleRouted("t1", [kind |-> "Unicast", key |-> "a"])
    \/ SupLookup("t1")
    \/ SupEntry("t1")
    \/ SupInsert("t1")
    \/ SupTrySend("t1")
    \/ Started(1) /\ TryRecv(1)
    \/ Started(1) /\ Close(1)

SpecUnicast == InitSup /\ [][NextUnicast]_vars

\* One caller sending a config update, envelopes routed to either key and
\* broadcasts, while the spawned actors may close their mailboxes.
NextBroadcast ==
    \/ SupHandleConfig("t1", "UpdateConfig", 1, TRUE)
    \/ \E o \in RouterOutcomes \ {[kind |-> "Discard", key |-> "none"]} :
           SupHandleRouted("t1", o)
    \/ SupLookup("t1")
    \/ SupEntry("t1")
    \/ SupInsert("t1")
    \/ SupTrySend("t1")
    \/ SupBroadcast("t1")
    \/ SupBroadcastEnd("t1")
    \/ \E a \in Actors : Started(a) /\ Close(a)

SpecBroadcast == InitSup /\ [][NextBroadcast]_vars

\* Two nodes after listen() and discover(): each has the other's transport
\* in discovery.predefined and runs one control dial loop.
InitPair ==
    /\ InitCore
    /\ book = {}
    /\ InitNodes
    /\ conns = <<DiscoverOne(1, 2), DiscoverOne(2, 1)>>

\* The discovery of two nodes over a network that does not fail once a
\* connection is made.
NextPair ==
    \/ \E i \in 1..MaxConns : DialConnect(i, TRUE)
    \/ \E i \in 1..MaxConns, side \in Sides : OnConnectionEstablished(i, side)
    \/ \E i \in 1..MaxConns, side \in Sides : HandshakeRead(i, side)
    \/ \E i \in 1..MaxConns, side \in Sides : OnConnectionAccepted(i, side)

SpecPair == InitPair /\ [][NextPair]_vars

\* The runtime keeps polling the streams attached to the context and the
\* main loop, and a connect to a listening peer succeeds.
FairSpecPair == SpecPair /\ WF_vars(NextPair)

\* The discovery of two nodes over a network that may fail under any
\* connection: handshakes are rejected, control connections fail and are
\* dialed again.  The dial loops of the data connections are left waiting.
NextRedial ==
    \/ \E i \in 1..MaxConns :
          i <= Len(conns) /\ conns[i].role.type = "SwitchToControl" /\ DialConnect(i, TRUE)
    \/ \E i \in 1..MaxConns, side \in Sides : OnConnectionEstablished(i, side)
    \/ \E i \in 1..MaxConns, side \in Sides : HandshakeRead(i, side)
    \/ \E i \in 1..MaxConns, side \in Sides : OnConnectionAccepted(i, side)
    \/ \E i \in 1..MaxConns, side \in Sides : OnConnectionRejected(i, side)
    \/ \E i \in 1..MaxConns : NetworkError(i)
    \/ \E i \in 1..MaxConns, side \in Sides : MaintenanceFails(i, side)
    \/ \E i \in 1..MaxConns, side \in Sides : OnControlConnectionFailed(i, side)

SpecRedial == InitPair /\ [][NextRedial]_vars

\* The runtime keeps polling the streams attached to the context and the
\* main loop.
FairSpecRedial == SpecRedial /\ WF_vars(NextRedial)

\* Node 2 after listen() and discover(), its discovery.predefined naming
\* node 1 and node 2 itself; node 1 listens.
InitOne ==
    /\ InitCore
    /\ book = {}
    /\ InitNodes
    /\ conns = Discover(2, <<1, 2>>)

\* Node 2 dials node 1 and itself over a network where a connect may fail.
NextOne ==
    \/ \E i \in 1..MaxConns, ok \in BOOLEAN : DialConnect(i, ok)
    \/ \E i \in 1..MaxConns, side \in Sides : OnConnectionEstablished(i, side)
    \/ \E i \in 1..MaxConns, side \in Sides : HandshakeRead(i, side)
    \/ \E i \in 1..MaxConns, side \in Sides : OnConnectionAccepted(i, side)

SpecOne == InitOne /\ [][NextOne]_vars

\* The runtime keeps polling the streams attached to the context and the
\* main loop, and a connect to a listening peer succeeds in the end.
FairSpecOne == SpecOne /\ WF_vars(NextOne)

\* Node 1 after listen(), with nothing to discover.
InitAccept ==
    /\ InitCore
    /\ book = {}
    /\ InitNodes
    /\ conns = Discover(1, <<>>)

\* The listener of node 1 against peers that send any first message.
NextAccept ==
    \/ \E m \in FirstInputs : ForeignConnect(1, m)
    \/ \E i \in 1..MaxConns : OnConnectionEstablished(i, "acc")
    \/ \E i \in 1..MaxConns : HandshakeRead(i, "acc")
    \/ \E i \in 1..MaxConns : OnConnectionAccepted(i, "acc")
    \/ \E i \in 1..MaxConns : OnConnectionRejected(i, "acc")

SpecAccept == InitAccept /\ [][NextAccept]_vars

\* Node 1 runs the groups 1 "a" and 2 "b", node 2 the group 3 "c"; each
\* group is interested in any of the other node's groups.
Topologies ==
    {[n \in Nodes |->
         IF n = 1 THEN <<[group_no |-> 1, name |-> "a", interests |-> ia],
                         [group_no |-> 2, name |-> "b", interests |-> ib]>>
         ELSE <<[group_no |-> 3, name |-> "c", interests |-> ic]>>] :
       ia \in SUBSET {"c"}, ib \in SUBSET {"c"}, ic \in SUBSET {"a", "b"}}

\* One of the two nodes has the other's transport in discovery.predefined,
\* in any topology.
InitInfer ==
    /\ InitCore
    /\ book = {}
    /\ InitMaps
    /\ thisGroups \in Topologies
    /\ \E n \in Nodes : conns = Discover(n, <<3 - n>>)

\* The control connection of the two nodes comes up; the dial loops of the
\* data connections are left waiting.
NextInfer ==
    \/ \E i \in 1..MaxConns :
          i <= Len(conns) /\ conns[i].role.type = "SwitchToControl" /\ DialConnect(i, TRUE)
    \/ \E i \in 1..MaxConns, side \in Sides : OnConnectionEstablished(i, side)
    \/ \E i \in 1..MaxConns, side \in Sides : HandshakeRead(i, side)
    \/ \E i \in 1..MaxConns, side \in Sides : OnConnectionAccepted(i, side)

SpecInfer == InitInfer /\ [][NextInfer]_vars

\* Node 1 after discover(), its discovery.predefined naming node 2; only
\* group "a" of node 1 is interested in the other node's group.
InitData ==
    /\ InitCore
    /\ book = {}
    /\ InitMaps
    /\ thisGroups = [DefaultGroups EXCEPT ![2][1].interests = {}]
    /\ conns = Discover(1, <<2>>)

\* Node 1 dials node 2 for control and data, while a peer that is no
\* Discovery node opens control and data connections to node 2.
NextData ==
    \/ \E i \in 1..MaxConns : DialConnect(i, TRUE)
    \/ \E m \in {x \in FirstInputs : x.type \in {"SwitchToControl", "SwitchToData"}} :
          ForeignConnect(2, m)
    \/ \E i \in 1..MaxConns, side \in Sides : OnConnectionEstablished(i, side)
    \/ \E i \in 1..MaxConns, side \in Sides : HandshakeRead(i, side)
    \/ \E i \in 1..MaxConns, side \in Sides : OnConnectionAccepted(i, side)

SpecData == InitData /\ [][NextData]_vars

\* Node 1 after discover(), its discovery.predefined naming node 2; no
\* group is interested in another node's group.
InitPing ==
    /\ InitCore
    /\ book = {}
    /\ InitMaps
    /\ thisGroups = [n \in Nodes |-> <<[DefaultGroups[n][1] EXCEPT !.interests = {}]>>]
    /\ conns = Discover(1, <<2>>)

\* The control connection of node 1 to node 2 and the one a peer that is
\* no Discovery node opens to node 2, with their maintenance tasks, up to
\* the ControlConnectionFailed of a task that ends; the network may fail
\* under the connection of node 1.
NextPing ==
    \/ \E i \in 1..MaxConns : DialConnect(i, TRUE)
    \/ \E m \in {x \in FirstInputs : x.type = "SwitchToControl"} :
          /\ \A j \in 1..Len(conns) : conns[j].from # Foreign
          /\ ForeignConnect(2, m)
    \/ \E i \in 1..MaxConns, side \in Sides : OnConnectionEstablished(i, side)
    \/ \E i \in 1..MaxConns, side \in Sides : HandshakeRead(i, side)
    \/ \E i \in 1..MaxConns, side \in Sides : OnConnectionAccepted(i, side)
    \/ \E i \in 1..MaxConns, side \in Sides, ok \in BOOLEAN : MaintenanceSend(i, side, ok)
    \/ \E i \in 1..MaxConns, side \in Sides : MaintenanceRecv(i, side)
    \/ \E i \in 1..MaxConns, side \in Sides : MaintenanceSleep(i, side)
    \/ \E i \in 1..MaxConns, m \in ForeignInputs : ForeignSays(i, m)
    \/ NetworkError(1)

SpecPing == InitPing /\ [][NextPing]_vars

\* The runtime keeps polling the maintenance tasks and the main loop.
FairSpecPing == SpecPing /\ WF_vars(NextPing)

\* The data connections whose failure Discovery has yet to answer with a dial.
PendingRedials ==
    {i \in 1..Len(conns) :
        /\ IsDataRole(conns[i].role)
        /\ \/ conns[i].dial.pc = "dataFailed"
           \/ /\ conns[i].dial.pc = "up"
              /\ EndOfStream \in {conns[i].toDial[k] : k \in 1..Len(conns[i].toDial)}}

\* Two nodes with mutual interest, node 1 dialing node 2: the data
\* connections come up once the control connection is held by both sides,
\* are killed by the network while both sides hold them, and are dialed
\* again by Discovery.
NextKill ==
    \/ \E i \in 1..MaxConns :
          /\ i <= Len(conns)
          /\ IsDataRole(conns[i].role) =>
                 \E j \in 1..Len(conns) :
                    /\ conns[j].role.type = "SwitchToControl"
                    /\ conns[j].dial.pc = "up" /\ conns[j].acc.pc = "up"
          /\ DialConnect(i, TRUE)
    \/ \E i \in 1..MaxConns, side \in Sides : OnConnectionEstablished(i, side)
    \/ \E i \in 1..MaxConns, side \in Sides : HandshakeRead(i, side)
    \/ \E i \in 1..MaxConns, side \in Sides : OnConnectionAccepted(i, side)
    \/ \E i \in 1..MaxConns :
          /\ i <= Len(conns)
          /\ IsDataRole(conns[i].role)
          /\ conns[i].dial.pc = "up" /\ conns[i].acc.pc = "up"
          /\ Len(conns) + Cardinality(PendingRedials) < MaxConns
          /\ NetworkError(i)
    \/ \E i \in 1..MaxConns, side \in Sides : WorkerFails(i, side)
    \/ \E i \in 1..MaxConns : OnDataConnectionFailed(i)

InitKill ==
    /\ InitCore
    /\ book = {}
    /\ InitNodes
    /\ conns = Discover(1, <<2>>)

SpecKill == InitKill /\ [][NextKill]_vars

\* The runtime keeps polling the streams and the main loop, the workers
\* notice a dead socket, and a connect to the listening peer succeeds.
FairSpecKill == SpecKill /\ WF_vars(NextKill)

\* An actor that is told to terminate while more envelopes are queued: the
\* senders push Msg and Terminate envelopes, the owner receives, may mark
\* itself Terminated and may close its mailbox.
NextTerminate ==
    \/ \E m \in Msgs : TrySendTo(1, m)
    \/ \E m \in Msgs : SendTo(1, m)
    \/ Recv(1)
    \/ TryRecv(1)
    \/ RecvPending(1)
    \/ SourceEmit(1)
    \/ Close(1)
    \/ SetStatus(1, "Terminated")

SpecTerminate == Init /\ [][NextTerminate]_vars

\* Two concurrent callers of handle, each delivering config updates and
\* envelopes routed to key "a", and the actor of that key receiving.
NextConfigRace ==
    \/ \E t \in Threads, c \in Configs : SupHandleConfig(t, "UpdateConfig", c, TRUE)
    \/ \E t \in Threads :
          nextId <= MaxMsgs /\ SupHandleRouted(t, [kind |-> "Unicast", key |-> "a"])
    \/ \E t \in Threads : SupLookup(t)
    \/ \E t \in Threads : SupEntry(t)
    \/ \E t \in Threads : SupInsert(t)
    \/ \E t \in Threads : SupTrySend(t)
    \/ \E t \in Threads : SupBroadcast(t)
    \/ \E t \in Threads : SupBroadcastEnd(t)
    \/ Started(1) /\ Recv(1)

SpecConfigRace == InitSup /\ [][NextConfigRace]_vars

\* ------------------------------------------------------------- properties

\* C1: with the config set, in every reachable state each key was spawned at
\* most once, a key present in `objects` was spawned exactly once and holds
\* its own actor, every Unicast call that got past the lookup or the entry
\* holds the one actor stored under its key, and every Unicast call that
\* returned reported on that actor (Done: the envelope entered its mailbox).
OneSpawnPerKey ==
    /\ \A k \in Keys :
          /\ spawnCount[k] <= 1
          /\ objects[k] # 0 => spawnCount[k] = 1
          /\ \A k2 \in Keys : objects[k] # 0 /\ objects[k] = objects[k2] => k = k2
    /\ \A t \in Threads :
          thr[t].pc = "trysend" => thr[t].obj # 0 /\ thr[t].obj = objects[thr[t].key]
    /\ (ret.op = "handle" /\ ret.outcome = "Unicast" /\ ret.kind # "Panicked") =>
          /\ ret.a # 0 /\ ret.a = objects[ret.key]
          /\ spawnCount[ret.key] = 1
          /\ ret.kind = "Done" => \E i \in 1..Len(sendLog[ret.a]) : sendLog[ret.a][i] >= 1

\* Two concurrent Unicast calls both missed the lookup of the same new key;
\* one spawned the actor, the other found the entry filled, and the
\* envelopes of both are in that actor's mailbox.
OneSpawnPerKeyWitness ==
    /\ ret.op = "handle" /\ ret.outcome = "Unicast" /\ ret.kind = "Done"
    /\ ret.missed /\ ~ret.spawned
    /\ spawnCount[ret.key] = 1
    /\ Len(mailbox[ret.a]) = 2
    /\ \A i \in 1..2 : mailbox[ret.a][i].msg = "Msg"

UpdateConfigHandled ==
    (ret.op \in {"recv", "try_recv"}) =>
        /\ ret.env.msg # "UpdateConfig"
        /\ ret.got.msg = "UpdateConfig" =>
              /\ ret.env.msg = "ConfigUpdated" /\ ret.env.token = 0
              /\ ret.config = ret.got.cfg
              /\ config[ret.a] = ret.got.cfg
              /\ ret.got.token # 0
              /\ ret.got.token \notin held[ret.a]
              /\ deposits[ret.got.token] # <<>>
              /\ deposits[ret.got.token][Len(deposits[ret.got.token])] = ret.a
              /\ \E i \in 1..Len(reqs[ret.got.token].data) :
                     reqs[ret.got.token].data[i] = ret.a

\* An actor spawned with config 1 took an UpdateConfig carrying config 2.
UpdateConfigHandledWitness ==
    /\ ret.op \in {"recv", "try_recv"} /\ ret.got.msg = "UpdateConfig"
    /\ ret.got.cfg = 2 /\ config[ret.a] = 2
    /\ ret.env.msg = "ConfigUpdated"

\* C13: a handle call whose ValidateConfig failed to decode reports Done, has
\* answered the request with ConfigRejected carrying the decoder's reason
\* for that config, which is the only answer in the requester's slot, and
\* its envelope entered no mailbox.
ValidateRejected ==
    (ret.op = "handle" /\ ret.outcome = "Rejected" /\ ret.env.msg = "ValidateConfig") =>
        /\ ret.kind = "Done"
        /\ reqs[ret.env.token].state = "done"
        /\ reqs[ret.env.token].data = <<RejectedWith(ret.env.cfg)>>
        /\ \A a \in Actors :
              /\ \A i \in 1..Len(sendLog[a]) : sendLog[a][i] # ret.env.id
              /\ \A i \in 1..Len(mailbox[a]) : mailbox[a][i].id # ret.env.id

\* The group has an actor with an envelope queued when a ValidateConfig with
\* config 2 is rejected.
ValidateRejectedWitness ==
    /\ ret.op = "handle" /\ ret.outcome = "Rejected" /\ ret.env.msg = "ValidateConfig"
    /\ ret.env.cfg = 2
    /\ objects["a"] = 1 /\ Len(mailbox[1]) = 1 /\ ~closed[1]

\* The envelope as it lies in a mailbox, apart from its queue position.
SameEnvelope(e1, e2) == [e1 EXCEPT !.ahead = 0] = [e2 EXCEPT !.ahead = 0]

\* C14: the try_send step of a Unicast call is always possible, and when it
\* returns, the envelope is either the new tail of the target's mailbox,
\* which had room (Done), or handed back unchanged in Wait with the target's
\* address for a full open mailbox, or in Closed for a closed one, the
\* mailbox being left as it was; no mailbox ever exceeds its capacity.
UnicastNeverLoses ==
    /\ [](\A a \in Actors : Len(mailbox[a]) <= Capacity)
    /\ [](\A t \in Threads : thr[t].pc = "trysend" => ENABLED SupTrySend(t))
    /\ [][\A t \in Threads :
            (thr[t].pc = "trysend" /\ thr'[t].pc = "idle") =>
                LET to == thr[t].obj
                    env == thr[t].env
                    q == mailbox[to]
                IN  /\ ret'.op = "handle" /\ ret'.a = to /\ to = objects[thr[t].key]
                    /\ ret'.kind \in {"Done", "Wait", "Closed"}
                    /\ ret'.kind = "Done" =>
                          /\ ~closed[to] /\ Len(q) < Capacity
                          /\ Len(mailbox'[to]) = Len(q) + 1
                          /\ SameEnvelope(mailbox'[to][Len(q) + 1], env)
                          /\ SubSeq(mailbox'[to], 1, Len(q)) = q
                    /\ ret'.kind = "Wait" =>
                          /\ ~closed[to] /\ Len(q) = Capacity
                          /\ ret'.env = env /\ mailbox' = mailbox
                    /\ ret'.kind = "Closed" =>
                          /\ closed[to]
                          /\ ret'.env = env /\ mailbox' = mailbox]_vars

\* A Unicast call found the mailbox of its actor full and reported Wait.
UnicastNeverLosesWitness ==
    /\ ret.op = "handle" /\ ret.outcome = "Unicast" /\ ret.kind = "Wait"
    /\ ret.a = objects["a"]
    /\ Len(mailbox[ret.a]) = Capacity /\ ret.env.msg = "Msg"

\* The ids queued in a mailbox, head first.
QueuedIds(a) == [i \in 1..Len(mailbox[a]) |-> mailbox[a][i].id]

\* C2: for every actor, what recv/try_recv returned from the mailbox so far,
\* followed by what is still queued, is exactly the sequence in which the
\* successful sends into that mailbox completed: FIFO, nothing lost,
\* duplicated or reordered.
FifoDelivery ==
    \A a \in Actors : a \in book => sendLog[a] = recvLog[a] \o QueuedIds(a)

\* Two envelopes from different senders were received by actor 1 while the
\* client's send also reached actor 2.
FifoDeliveryWitness ==
    /\ Len(recvLog[1]) >= 2
    /\ Len(sendLog[2]) >= 1
    /\ cli.pc = "done" /\ cli.accepted = 2

\* C6: send returns Ok exactly when some mailbox accepted a copy; otherwise
\* it returns SendError carrying the message it was given and no mailbox
\* took anything.
SendOkIffAccepted ==
    (cli.pc = "done" /\ cli.kind = "Regular") =>
        /\ cli.result.ok <=> cli.accepted >= 1
        /\ ~cli.result.ok =>
              /\ cli.result.err = "Closed"
              /\ cli.result.msg = cli.msg
              /\ cli.accepted = 0

\* A send to two recipients, one unknown and one closed, failed.
SendOkIffAcceptedWitness ==
    /\ cli.pc = "done" /\ cli.kind = "Regular"
    /\ Len(cli.addrs) = 2
    /\ \E i \in 1..2 : cli.addrs[i] \in Actors /\ closed[cli.addrs[i]]
    /\ ~cli.result.ok

MailboxWinsSelect ==
    /\ (ret.op = "recv" /\ ret.present /\ ret.head # 0) =>
           ret.from = "mailbox" /\ ~ret.end /\ ret.taken = ret.head
    /\ \A a \in Actors : \A i \in 1..Len(mailbox[a]) : mailbox[a][i].ahead >= 0

\* recv returned a queued Terminate although the source was ready too.
MailboxWinsSelectWitness ==
    /\ ret.op = "recv" /\ ret.present /\ ret.srcReady
    /\ ret.head # 0 /\ ret.env.msg = "Terminate"
    /\ Len(mailbox[1]) >= 1

\* C9: a send into a closed mailbox fails with Closed and changes nothing;
\* nothing is accepted after the close, and what was accepted before it is
\* received in the order it was sent; recv/try_recv report end only once the
\* mailbox is drained.
ClosedMailbox ==
    /\ (ret.op \in {"send_to", "try_send_to"} /\ ret.wasClosed) =>
           ~ret.res.ok /\ ret.res.err = "Closed" /\ ret.res.msg = ret.sent /\ ret.same
    /\ \A a \in Actors :
           (a \in book /\ closed[a]) =>
               /\ Len(sendLog[a]) = closedAt[a].total
               /\ sendLog[a] = recvLog[a] \o QueuedIds(a)
    /\ (ret.op \in {"recv", "try_recv"} /\ ret.present /\ ret.end) => ret.head = 0

\* Two envelopes queued at close were both received afterwards, then end.
ClosedMailboxWitness ==
    /\ closed[1] /\ closedAt[1].queued = 2
    /\ Len(recvLog[1]) = closedAt[1].total
    /\ ret.op \in {"recv", "try_recv"} /\ ret.a = 1 /\ ret.end

\* C10: close returns true exactly when it performed the transition
\* open -> closed, which happens at most once per actor; any other close
\* returns false and leaves the mailbox as it was.
CloseIdempotent ==
    /\ ret.op = "close" =>
           /\ ret.res <=> ret.wasOpen
           /\ ~ret.wasOpen => ret.same
    /\ \A a \in Actors : trueCloses[a] <= 1

\* A second close of actor 1 returned false.
CloseIdempotentWitness ==
    /\ ret.op = "close" /\ ret.a = 1 /\ ~ret.res
    /\ trueCloses[1] = 1

\* Token copies of request `rid` that do_send itself still owns.
InFlightTokens(rid) ==
    IF cli.rid = rid /\ cli.pc = "sending"
    THEN (IF Len(cli.addrs) = 1 THEN 1 ELSE 1 + (IF cli.unused THEN 1 ELSE 0))
    ELSE 0

\* Every live token copy of request `rid`.
LiveTokens(rid) ==
    InFlightTokens(rid)
    + (IF 1 \in book THEN QueuedTokens(1, rid) + HeldTokens(1, rid) ELSE 0)
    + (IF 2 \in book THEN QueuedTokens(2, rid) + HeldTokens(2, rid) ELSE 0)

\* The responders among the entries of an All result.
OkEntries(vec) == {vec[i] : i \in {j \in 1..Len(vec) : vec[j] # 0}}

\* C3: an All request that was dispatched to N recipients returns exactly N
\* entries, Ok for the recipients that responded and Err(Ignored) for the
\* others.
AllOnePerRecipient ==
    (cli.pc = "done" /\ cli.mode = "All" /\ cli.result.ok) =>
        /\ Len(cli.result.vec) = Len(cli.addrs)
        /\ OkEntries(cli.result.vec) = {deposits[cli.rid][i] : i \in 1..Len(deposits[cli.rid])}

\* The slot of an open request awaits exactly the live token copies.
TokenConservation ==
    \A rid \in 1..MaxMsgs :
        reqs[rid].state = "open" => reqs[rid].remainder = LiveTokens(rid)

\* C4: every live token copy is awaited exactly once, and once the last copy
\* of a dispatched request was used or dropped, resolve returns.
ResolveReturns ==
    /\ []TokenConservation
    /\ (cli.pc = "waiting" /\ LiveTokens(cli.rid) = 0) ~> (cli.pc = "done")

\* The only recipient of a dispatched request ended without answering; the
\* slot is complete with one absent answer.
ResolveReturnsWitness ==
    /\ cli.pc = "waiting" /\ cli.addrs = <<1>>
    /\ 1 \notin book
    /\ deposits[cli.rid] = <<>>
    /\ reqs[cli.rid].state = "done" /\ reqs[cli.rid].data = <<0>>

\* C5: a dispatched Any request returns the first response deposited for
\* it, whatever is deposited later, and Ignored if no token was answered.
AnyFirstResponseWins ==
    (cli.pc = "done" /\ cli.mode = "Any" /\ cli.result.err # "Closed") =>
        IF deposits[cli.rid] # <<>>
        THEN cli.result.ok /\ cli.result.vec = <<Head(deposits[cli.rid])>>
        ELSE ~cli.result.ok /\ cli.result.err = "Ignored"

\* The second of two requests returned its first response; a second
\* recipient answered it after completion and a token of the first request
\* was answered late as well.
AnyFirstResponseWinsWitness ==
    /\ cli.pc = "done" /\ cli.mode = "Any" /\ cli.rid = 2
    /\ cli.result.ok
    /\ Len(deposits[2]) = 2
    /\ deposits[1] # <<>>

\* ---- discovery

IsControl(c) == c.role.type = "SwitchToControl"

IsData(c) == c.role.type = "SwitchToData"

\* The control connections dialed by `d` to `a` that both sides hold.
ControlUp(d, a) ==
    {i \in 1..Len(conns) : /\ IsControl(conns[i]) /\ conns[i].from = d /\ conns[i].to = a
                           /\ conns[i].dial.pc = "up" /\ conns[i].acc.pc = "up"}

\* The data connections node `d` dialed for its group `my` and the peer's group `your`.
DataDialed(d, my, your) ==
    {i \in 1..Len(conns) : /\ IsData(conns[i]) /\ conns[i].from = d
                           /\ conns[i].role.my_group_no = my
                           /\ conns[i].role.your_group_no = your}

DataDials12 == DataDialed(1, 1, 2) \cup DataDialed(2, 2, 1)

\* C15 as stated: no group pair is dialed twice, and discovery ends with one
\* control connection per direction and one data connection for each of the
\* pairs (1, 2) and (2, 1).
OneDataConnectionPerPair ==
    /\ [](\A i, j \in 1..Len(conns) :
            (i < j /\ IsData(conns[i]) /\ IsData(conns[j]))
                => <<conns[i].from, conns[i].role>> # <<conns[j].from, conns[j].role>>)
    /\ <>[](/\ Cardinality(ControlUp(1, 2)) = 1
            /\ Cardinality(ControlUp(2, 1)) = 1
            /\ Cardinality(DataDialed(1, 1, 2)) = 1
            /\ Cardinality(DataDialed(2, 2, 1)) = 1)

\* C15: two nodes with mutual interest end with exactly one control
\* connection per direction, held by both sides; the initiator of a control
\* connection infers its own pair once from each side's interests, so node 1
\* dials the pair (1, 2) twice and node 2 the pair (2, 1) twice, and no other
\* data connection is dialed; every data dial completes its handshake and
\* is handed to the dialer's group.
DiscoveryDialsEachPairTwice ==
    /\ [](\A i \in 1..Len(conns) :
            /\ IsData(conns[i]) => i \in DataDials12
            /\ (IsControl(conns[i]) /\ conns[i].dial.pc = "up")
                   => Cardinality(DataDialed(conns[i].from, conns[i].from, conns[i].to)) = 2)
    /\ <>[](/\ Cardinality(ControlUp(1, 2)) = 1
            /\ Cardinality(ControlUp(2, 1)) = 1
            /\ Cardinality(DataDialed(1, 1, 2)) = 2
            /\ Cardinality(DataDialed(2, 2, 1)) = 2
            /\ \A i \in DataDials12 : conns[i].dial.pc = "up")

\* Both control connections are up, and the four data connections they
\* caused are held by both of their sides.
DiscoveryDialsEachPairTwiceWitness ==
    /\ Cardinality(ControlUp(1, 2)) = 1
    /\ Cardinality(ControlUp(2, 1)) = 1
    /\ Cardinality(DataDials12) = 4
    /\ \A i \in DataDials12 : conns[i].dial.pc = "up" /\ conns[i].acc.pc = "up"
    /\ Len(handed[1]) = 4 /\ Len(handed[2]) = 4

\* The side holds the connection and its socket has not met the end of the stream.
Established(i, side) ==
    /\ conns[i][side].pc = "up"
    /\ EndOfStream \notin {conns[i][Inbound(side)][k] : k \in 1..Len(conns[i][Inbound(side)])}

\* The control connections dialed by `d` to `a` that one side at least holds.
ControlEstablished(d, a) ==
    {i \in 1..Len(conns) : /\ IsControl(conns[i]) /\ conns[i].from = d /\ conns[i].to = a
                           /\ \E side \in Sides : Established(i, side)}

\* C16: whatever connections fail and are dialed again, for every ordered
\* pair (dialing node, accepting node) at most one control connection is
\* held with a live socket, and a control dial loop runs only while none is.
OneControlPerPair ==
    \A d, a \in Nodes :
        /\ Cardinality(ControlEstablished(d, a)) <= 1
        /\ Cardinality({i \in 1..Len(conns) :
                           /\ IsControl(conns[i]) /\ conns[i].from = d /\ conns[i].to = a
                           /\ conns[i].dial.pc \notin {"closed"}}) <= 1

\* A control connection failed, its initiator dialed again, and the new
\* connection is held by both sides while the old one is closed.
OneControlPerPairWitness ==
    \E i, j \in 1..Len(conns) :
        /\ i < j /\ IsControl(conns[i]) /\ IsControl(conns[j])
        /\ conns[i].from = conns[j].from /\ conns[i].to = conns[j].to
        /\ conns[i].dial.pc = "closed" /\ conns[i].acc.pc = "closed"
        /\ Established(j, "dial") /\ Established(j, "acc")

\* The side's accept_connection returned Ok(ConnectionAccepted).
Accepted(i, side) == conns[i][side].got # NoWire

IsGroupOf(n, no) == FindGroup(GroupsOf(n), no) # ""

\* What the ConnectionAccepted of a side carries, given the role dialed.
AcceptedRole(i, side) ==
    LET c == conns[i]
        got == c[side].got
    IN /\ got.type = c.role.type
       /\ IsControl(c) => got.groups = GroupsOf(PeerOf(c, side))
       /\ IsData(c) => /\ IsGroupOf(PeerOf(c, side), got.my_group_no)
                       /\ IsGroupOf(NodeOf(c, side), got.your_group_no)
                       /\ got.my_group_no = (IF side = "acc" THEN c.role.my_group_no
                                                            ELSE c.role.your_group_no)
                       /\ got.your_group_no = (IF side = "acc" THEN c.role.your_group_no
                                                              ELSE c.role.my_group_no)

\* C17: over a connection made between a dialer with role Control or Data
\* and a listener, neither handshake is rejected and both sides end with a
\* ConnectionAccepted; it has the role dialed, and carries for Control the
\* other side's group list and for Data a SwitchToData whose my_group_no is
\* the peer's group and whose your_group_no is the side's own group.
HandshakeCompletes ==
    /\ [](\A i \in 1..Len(conns), side \in Sides :
            /\ conns[i][side].pc # "rejected"
            /\ Accepted(i, side) => AcceptedRole(i, side))
    /\ <>[](\A i \in 1..Len(conns) :
               conns[i].dial.pc # "connecting" => Accepted(i, "dial") /\ Accepted(i, "acc"))

\* A control connection and a data connection are both accepted on both sides.
HandshakeCompletesWitness ==
    \E i, j \in 1..Len(conns) :
        /\ IsControl(conns[i]) /\ IsData(conns[j])
        /\ \A side \in Sides : Accepted(i, side) /\ Accepted(j, side)

\* The acceptor's accept_connection is over for connection `i`.
AcceptorDone(i) == conns[i].acc.pc \notin {"none", "established", "awaiting"}

\* The messages the acceptor has sent on connection `i`.
Replies(i) == SelectSeq(conns[i].toDial, LAMBDA m : m # EndOfStream)

\* The acceptor failed without a reply and without a ConnectionAccepted.
AcceptorRefused(i) ==
    /\ Replies(i) = <<>>
    /\ ~Accepted(i, "acc")
    /\ conns[i].acc.pc \in {"rejected", "closed"}
    /\ conns[i].acc.err # NoError

\* What accept_connection did with a first envelope that switches the role:
\* it read that envelope only, sent the one reply, and committed the role
\* with the message received.
AcceptorSwitched(i) ==
    LET c == conns[i]
        m == c.role
    IN /\ c.toAcc = <<Ping>>
       /\ c.acc.got = m
       /\ c.acc.err = NoError
       /\ m.type = "SwitchToControl" => Replies(i) = <<SwitchToControl(GroupsOf(c.to))>>
       /\ m.type = "SwitchToData" =>
              Replies(i) = <<SwitchToData(m.your_group_no, m.my_group_no, 100000)>>

\* C18 as stated: every first message other than SwitchToControl and
\* SwitchToData is refused with an "unexpected message" error that names
\* SwitchToControl and SwitchToData.
AcceptorNamesExpected ==
    \A i \in 1..Len(conns) :
        (AcceptorDone(i) /\ conns[i].role.type \in {"Ping", "Response"})
            => /\ AcceptorRefused(i)
               /\ conns[i].acc.err =
                      UnexpectedMessageError(conns[i].role, <<"SwitchToControl", "SwitchToData">>)

\* C18: an acceptor with role Unknown reads exactly one envelope; for
\* SwitchToControl it replies with its own group list and commits Control,
\* for SwitchToData it replies with the group numbers swapped and the window
\* 100000 and commits Data; any other regular message is refused with no
\* reply, no ConnectionAccepted and an "unexpected message" error naming the
\* message and SwitchToControl, SwitchToData; an envelope that is not a
\* regular message and a stream that ends are refused likewise, with the
\* errors of recv.
AcceptorCommitsFirstEnvelope ==
    \A i \in 1..Len(conns) :
        AcceptorDone(i) =>
            LET m == conns[i].role
            IN CASE m.type \in {"SwitchToControl", "SwitchToData"} -> AcceptorSwitched(i)
                 [] m.type = "Ping" ->
                        /\ AcceptorRefused(i)
                        /\ conns[i].acc.err = [text |-> "unexpected message", got |-> "Ping",
                                               expected |-> <<"SwitchToControl", "SwitchToData">>]
                 [] m.type = "Response" ->
                        /\ AcceptorRefused(i)
                        /\ conns[i].acc.err.text = "unexpected message kind"
                 [] OTHER ->
                        /\ AcceptorRefused(i)
                        /\ conns[i].acc.err.text =
                               "connection closed before receiving any messages"

\* The listener has served a SwitchToData and refused a Ping.
AcceptorCommitsFirstEnvelopeWitness ==
    \E i, j \in 1..Len(conns) :
        /\ AcceptorDone(i) /\ conns[i].role.type = "SwitchToData"
        /\ conns[i].acc.got.initial_window = 1
        /\ AcceptorDone(j) /\ conns[j].role.type = "Ping"

\* C19: a dial loop yields at most one ConnectionEstablished, with the role
\* and the transport it was called with, and only for a connect that reached
\* another node, whose listener then yields its own event; a connect that
\* failed or reached the node itself yields no event on either side and
\* leaves the loop running, after a sleep of attempt_interval plus
\* launch_id mod 5000 milliseconds.
DialLoopEmitsOnce ==
    /\ [](\A i \in 1..Len(conns) :
            LET c == conns[i]
            IN /\ c.emitted <= 1
               /\ c.emitted = 1 <=> c.dial.pc # "connecting"
               /\ c.emitted = 1 => c.to # c.from /\ TransportOf(c, "dial") = c.to
               /\ c.to = c.from => c.dial.pc = "connecting" /\ c.acc.pc = "none"
               /\ c.dial.pc = "connecting" => c.acc.pc = "none"
               /\ c.tries > 0 => c.delay = AttemptInterval + (LaunchId(c.from) % 5000))
    /\ [][\A i \in 1..Len(conns) :
            /\ conns'[i].role = conns[i].role
            /\ conns'[i].to = conns[i].to
            /\ conns'[i].tries > conns[i].tries
                   => conns'[i].dial.pc = "connecting" /\ conns'[i].emitted = 0
            /\ conns'[i].emitted > conns[i].emitted
                   => /\ conns'[i].dial.pc = "established"
                      /\ conns'[i].acc.pc = "established"]_vars

\* The dial to node 1 failed twice and then yielded its event, while the
\* dial that reaches the node itself is still in its loop.
DialLoopEmitsOnceWitness ==
    \E i, j \in 1..Len(conns) :
        /\ conns[i].tries = MaxTries /\ conns[i].emitted = 1
        /\ conns[i].delay = 12002
        /\ conns[j].to = conns[j].from /\ conns[j].tries > 0
        /\ conns[j].dial.pc = "connecting"

\* C20 as stated: whenever the handshake of a dialed connection fails and
\* ConnectionRejected reaches the main loop, the same transport is
\* eventually dialed again with the same role.
RejectedIsRedialed ==
    \A i \in 1..MaxConns :
        (i <= Len(conns) /\ conns[i].from \in Nodes /\ conns[i].dial.pc = "rejected")
            ~> (\E j \in 1..Len(conns) :
                   /\ j > i
                   /\ conns[j].from = conns[i].from
                   /\ conns[j].to = conns[i].to
                   /\ conns[j].role = conns[i].role)

\* ---- Context::respond

\* The step is a respond of actor `a` with the live token of request `rid`.
RespondStep(a, rid) ==
    /\ rid \in held[a]
    /\ rid \notin held'[a]
    /\ Len(deposits'[rid]) = Len(deposits[rid]) + 1

\* C21: respond is always possible for the holder of a token; with a
\* forgotten token it changes nothing; with a live token it consumes the
\* token and touches no mailbox, no book entry and no request slot other
\* than the token's own, and when the requester has left the book it
\* touches no slot at all.
RespondNeverFails ==
    /\ [](\A a \in Actors :
            /\ ENABLED RespondForgotten(a)
            /\ \A rid \in held[a] : ENABLED Respond(a, rid))
    /\ [][(ret' # ret /\ ret'.op = "respond")
            => UNCHANGED <<book, mailbox, closed, status, source, cli, nextId,
                           reqVars, config, supVars, discVars>>]_vars
    /\ [][\A a \in Actors, rid \in 1..MaxMsgs :
            RespondStep(a, rid)
                => /\ held' = [held EXCEPT ![a] = @ \ {rid}]
                   /\ UNCHANGED <<book, mailbox, closed, status, source, cli>>
                   /\ \A r \in 1..MaxMsgs : r # rid => reqs'[r] = reqs[r]
                   /\ Requester \notin book => reqs' = reqs]_vars

\* A recipient answered an open request whose requester had left the book.
RespondNeverFailsWitness ==
    \E rid \in 1..MaxMsgs :
        /\ Requester \notin book
        /\ reqs[rid].state = "open"
        /\ reqs[rid].data = <<>>
        /\ Len(deposits[rid]) = 1
        /\ \A a \in Actors : rid \notin held[a]

\* ---- direct sends

\* C22: send_to fails with SendError(msg) exactly when the address is
\* unknown or the mailbox is closed; try_send_to is always ready to return,
\* fails with Closed(msg) when the address is unknown or the mailbox is
\* closed, with Full(msg) when the open mailbox is at capacity, and succeeds
\* otherwise; a failed direct send hands the message back and leaves every
\* mailbox as it was, a successful one puts one envelope at the tail.
DirectSendErrors ==
    /\ [](\A to \in Owners, m \in Msgs : nextId <= MaxMsgs => ENABLED TrySendTo(to, m))
    /\ [](ret.op \in {"send_to", "try_send_to"} =>
            LET unknown == ret.a \notin book
                failed == [ok |-> FALSE, err |-> "Closed", msg |-> ret.sent]
            IN /\ (unknown \/ ret.wasClosed) => ret.res = failed
               /\ (~unknown /\ ~ret.wasClosed /\ ret.wasFull) =>
                      ret.res = [ok |-> FALSE, err |-> "Full", msg |-> ret.sent]
               /\ (~unknown /\ ~ret.wasClosed /\ ~ret.wasFull) => ret.res.ok
               /\ ~ret.res.ok => ret.same /\ ret.res.msg = ret.sent
               /\ ret.op = "send_to" => ret.res.ok \/ ret.res = failed)
    /\ [][(nextId' # nextId /\ ret'.op \in {"send_to", "try_send_to"})
            => IF ret'.res.ok
               THEN mailbox' = [mailbox EXCEPT ![ret'.a] =
                                    Append(@, mailbox'[ret'.a][Len(mailbox'[ret'.a])])]
               ELSE mailbox' = mailbox]_vars

\* try_send_to returned Full with the message for a mailbox at capacity.
DirectSendErrorsWitness ==
    /\ ret.op = "try_send_to" /\ ret.a = 1
    /\ ret.res = [ok |-> FALSE, err |-> "Full", msg |-> ret.sent]
    /\ Len(mailbox[1]) = Capacity
    /\ ~closed[1]

\* The ids of the envelopes of a queue, oldest first.
IdsOf(q) == [j \in 1..Len(q) |-> q[j].id]

\* The actors whose mailbox accepted a copy of envelope `id`.
AcceptedBy(id) == {a \in Actors : \E j \in 1..Len(sendLog[a]) : sendLog[a][j] = id}

\* The addresses listed in a sequence of waiters.
WaiterAddrs(waiters) == {waiters[j][1] : j \in 1..Len(waiters)}

\* One iteration of the broadcast loop of thread `t` offers one copy to the
\* actor under the visited key and books the mailbox's verdict.
BroadcastOffers(t) ==
    (thr[t].pc = "broadcast" /\ thr'[t].pc = "broadcast" /\ thr'[t] # thr[t]) =>
        LET to == objects[KeyOrder[thr[t].i]]
            id == thr[t].env.id
        IN  /\ thr'[t].i = thr[t].i + 1
            /\ \A b \in Actors : b # to => mailbox'[b] = mailbox[b]
            /\ to = 0 =>
                  /\ thr'[t].someone = thr[t].someone
                  /\ thr'[t].waiters = thr[t].waiters
            /\ (to # 0 /\ closed[to]) =>
                  /\ mailbox'[to] = mailbox[to]
                  /\ thr'[t].someone = thr[t].someone
                  /\ thr'[t].waiters = thr[t].waiters
            /\ (to # 0 /\ ~closed[to] /\ Len(mailbox[to]) >= Capacity) =>
                  /\ mailbox'[to] = mailbox[to]
                  /\ thr'[t].someone = thr[t].someone
                  /\ thr'[t].waiters = Append(thr[t].waiters, <<to, id>>)
            /\ (to # 0 /\ ~closed[to] /\ Len(mailbox[to]) < Capacity) =>
                  /\ IdsOf(mailbox'[to]) = Append(IdsOf(mailbox[to]), id)
                  /\ thr'[t].someone
                  /\ thr'[t].waiters = thr[t].waiters

\* While the loop runs, `someone` and `waiters` say what the mailboxes
\* answered: nobody got two copies, nobody is listed twice or both accepted
\* and listed.
BroadcastBooked(t) ==
    thr[t].pc = "broadcast" =>
        LET id == thr[t].env.id
            w == thr[t].waiters
        IN  /\ thr[t].someone = (AcceptedBy(id) # {})
            /\ \A a \in Actors :
                  Cardinality({j \in 1..Len(sendLog[a]) : sendLog[a][j] = id}) <= 1
            /\ \A j \in 1..Len(w) : w[j][2] = id /\ w[j][1] \in Actors
            /\ \A j, l \in 1..Len(w) : w[j][1] = w[l][1] => j = l
            /\ WaiterAddrs(w) \cap AcceptedBy(id) = {}

\* The report of a broadcast whose loop ran to its end.
BroadcastReported(t) ==
    (thr[t].pc = "broadcast" /\ thr[t].i > Len(KeyOrder) /\ thr'[t].pc = "idle") =>
        LET id == thr[t].env.id
            full == WaiterAddrs(thr[t].waiters)
            accepted == AcceptedBy(id)
        IN  /\ ret'.op = "handle"
            /\ ret'.waiters = thr[t].waiters
            /\ ret'.someone = (accepted # {})
            /\ (ret'.kind = "WaitAll") = (full # {})
            /\ (ret'.kind = "Done") = (full = {} /\ accepted # {})
            /\ (ret'.kind = "Closed") = (full = {} /\ accepted = {})
            /\ ret'.kind = "Closed" => ret'.env = thr[t].env
            /\ Cardinality(full) = Len(thr[t].waiters)

\* C23: a broadcast of a duplicable envelope offers one copy to the actor
\* under every key of `objects` and reports WaitAll(any_success, waiters)
\* when some mailbox was full, with one waiter per full mailbox and
\* any_success true exactly when some mailbox accepted; Done when none was
\* full and some accepted; Closed(original) when none accepted and none was
\* full.  A closed recipient is in no report.
BroadcastReportsVerdicts ==
    /\ [](\A t \in Threads : BroadcastBooked(t))
    /\ [][\A t \in Threads : BroadcastOffers(t) /\ BroadcastReported(t)]_vars

\* A broadcast reported WaitAll with one full mailbox and one that accepted.
BroadcastReportsVerdictsWitness ==
    /\ ret.op = "handle"
    /\ ret.outcome = "Broadcast"
    /\ ret.kind = "WaitAll"
    /\ ret.someone
    /\ Len(ret.waiters) = 1

\* The config envelope of the call was turned down: no broadcast was started
\* and the report names the rejection.
ConfigTurnedDown == ret'.op = "handle" /\ ret'.outcome = "Rejected" /\ ret'.env.id = nextId

\* C24: the supervisor's last-known config changes only in
\* handle(UpdateConfig) with a config that decodes, and is written before
\* the first copy of the broadcast is offered; a failing UpdateConfig and any
\* ValidateConfig leave it unchanged; a failing UpdateConfig is answered
\* with ConfigRejected, reported Done and reaches no actor.
ConfigStoredOnlyOnUpdate ==
    /\ [][supConfig' # supConfig =>
             \E t \in Threads :
                /\ thr[t].pc = "idle"
                /\ thr'[t].pc = "broadcast"
                /\ thr'[t].i = 1
                /\ thr'[t].env.msg = "UpdateConfig"
                /\ thr'[t].env.id = nextId
                /\ supConfig' = thr'[t].env.cfg
                /\ mailbox' = mailbox /\ sendLog' = sendLog]_vars
    /\ [][\A t \in Threads :
             (thr[t].pc = "idle" /\ thr'[t].pc = "broadcast"
                 /\ thr'[t].env.msg = "UpdateConfig") => supConfig' = thr'[t].env.cfg]_vars
    /\ [][\A t \in Threads :
             (thr[t].pc = "idle" /\ thr'[t].pc = "broadcast"
                 /\ thr'[t].env.msg = "ValidateConfig") => supConfig' = supConfig]_vars
    /\ [][ConfigTurnedDown =>
             /\ supConfig' = supConfig
             /\ ret'.kind = "Done"
             /\ thr' = thr
             /\ mailbox' = mailbox /\ sendLog' = sendLog
             /\ deposits'[nextId] = <<RejectedWith(ret'.env.cfg)>>
             /\ reqs'[nextId].data = <<RejectedWith(ret'.env.cfg)>>]_vars
    /\ [](ret.op = "handle" /\ ret.outcome = "Rejected" =>
             \A a \in Actors : a \notin AcceptedBy(ret.env.id))

\* An UpdateConfig that failed to decode was turned down while an earlier
\* one is stored and an actor is running, and the stored config is still
\* the earlier one.
ConfigStoredOnlyOnUpdateWitness ==
    /\ supConfig = 1
    /\ Started(1)
    /\ ret.op = "handle" /\ ret.outcome = "Rejected"
    /\ ret.env.msg = "UpdateConfig" /\ ret.env.cfg = 2

\* A step in which spawn() started the task of a new actor.
SpawnStep == addrCount' = addrCount + 1

\* C25: an actor created by spawn starts with the config the supervisor
\* holds at that moment, which is the one of the most recent UpdateConfig
\* that decoded; a Unicast that has to spawn before any UpdateConfig
\* succeeded fails the assertion 'config is unset', creates no actor, and no
\* actor ever runs without a config.
SpawnTakesStoredConfig ==
    /\ [][SpawnStep =>
             /\ supConfig \in Configs
             /\ supConfig' = supConfig
             /\ config'[addrCount'] = supConfig
             /\ \A a \in Actors : a # addrCount' => config'[a] = config[a]]_vars
    /\ [][supConfig' # supConfig =>
             \E t \in Threads :
                /\ thr[t].pc = "idle" /\ thr'[t].pc = "broadcast"
                /\ thr'[t].env.msg = "UpdateConfig"
                /\ supConfig' = thr'[t].env.cfg
                /\ ~SpawnStep]_vars
    /\ [][(ret'.op = "handle" /\ ret'.kind = "Panicked" /\ ret' # ret) =>
             /\ supConfig = 0
             /\ addrCount' = addrCount
             /\ book' = book /\ objects' = objects /\ config' = config
             /\ mailbox' = mailbox]_vars
    /\ [][\A t \in Threads :
             (thr[t].pc = "entry" /\ thr'[t] # thr[t] /\ supConfig = 0
                 /\ objects[thr[t].key] = 0) =>
                 ret'.op = "handle" /\ ret'.kind = "Panicked" /\ thr'[t].pc = "idle"]_vars
    /\ [](\A a \in Actors : Started(a) => config[a] \in Configs)
    /\ [](supConfig = 0 => addrCount = 0)

\* After three calls, the last one a Unicast, the actor is being started
\* with config 2 while no config envelope has reached it.
SpawnTakesStoredConfigWitness ==
    /\ thr["t1"].pc = "spawning"
    /\ nextId = 4
    /\ supConfig = 2
    /\ config[thr["t1"].obj] = 2

\* ---- on_connection_accepted

\* The (local group_no, remote group_no) pairs in which one group is
\* interested in the other.
InterestingPairs(local, remote) ==
    {<<local[p[1]].group_no, remote[p[2]].group_no>> :
        p \in {q \in (1..Len(local)) \X (1..Len(remote)) :
                  \/ remote[q[2]].name \in local[q[1]].interests
                  \/ local[q[1]].name \in remote[q[2]].interests}}

\* The step in which `side` of connection `i` handles its ConnectionAccepted.
AcceptedStep(i, side) ==
    /\ i <= Len(conns)
    /\ conns[i][side].pc = "accepted"
    /\ conns'[i][side].pc # "accepted"

\* The dial loops started in the step.
NewDials == SubSeq(conns', Len(conns) + 1, Len(conns'))

\* C26: the handler of an accepted Control connection records the peer's
\* groups; the acceptor, which has no transport, dials nothing; the
\* initiator dials Data connections on the connection's transport with the
\* window 100000, and the (local group_no, remote group_no) pairs it dials
\* are exactly the pairs in which the local group is interested in the
\* remote one or the remote group in the local one.  Nothing else starts a
\* Data dial.
ControlAcceptedDialsPairs ==
    /\ [][\A i \in 1..MaxConns, side \in Sides :
             (AcceptedStep(i, side) /\ IsControl(conns[i])) =>
                 LET c == conns[i]
                     this == NodeOf(c, side)
                     peer == PeerOf(c, side)
                 IN /\ nodeMap'[this][peer] = [known |-> TRUE, groups |-> GroupsOf(peer)]
                    /\ conns'[i][side].pc = "up"
                    /\ side = "acc" => NewDials = <<>>
                    /\ side = "dial" =>
                          /\ \A k \in 1..Len(NewDials) :
                                /\ IsData(NewDials[k])
                                /\ NewDials[k] =
                                       NewDial(this, c.to,
                                               SwitchToData(NewDials[k].role.my_group_no,
                                                            NewDials[k].role.your_group_no,
                                                            100000))
                          /\ {<<NewDials[k].role.my_group_no, NewDials[k].role.your_group_no>> :
                                 k \in 1..Len(NewDials)}
                                = InterestingPairs(GroupsOf(this), GroupsOf(peer))]_vars
    /\ [][Len(conns') > Len(conns) =>
             \E i \in 1..Len(conns) : AcceptedStep(i, "dial") /\ IsControl(conns[i])]_vars

\* Node 1, whose group "a" is interested in "c" while "c" is interested in
\* "b", holds the control connection it dialed and has dialed the pairs
\* (1, 3) and (2, 3); node 2 holds the connection and has dialed nothing.
ControlAcceptedDialsPairsWitness ==
    /\ thisGroups[1][1].interests = {"c"}
    /\ thisGroups[1][2].interests = {}
    /\ thisGroups[2][1].interests = {"b"}
    /\ Cardinality(ControlUp(1, 2)) = 1
    /\ Len(conns) = 3
    /\ DataDialed(1, 1, 3) # {} /\ DataDialed(1, 2, 3) # {}

\* The names of the groups numbered `no` in a group list.
NamesOf(groups, no) ==
    {groups[k].name : k \in {x \in 1..Len(groups) : groups[x].group_no = no}}

\* The groups the node map of `this` holds for `peer`.
KnownGroups(this, peer) ==
    IF nodeMap[this][peer].known THEN nodeMap[this][peer].groups ELSE <<>>

\* The side of connection `i` accepted the role Data.
DataAccepted(i, side) == conns[i][side].got.type = "SwitchToData"

\* C27: the handler of an accepted Data connection sends one
\* HandleConnection to its own group, with local = (this node, your_group_no,
\* the group's name) and remote = (peer node, my_group_no, the name the node
\* map holds), exactly when both numbers resolve; otherwise it drops the
\* connection, sends nothing, dials nothing and raises no failure event.
\* Nothing else sends a HandleConnection.
DataAcceptedIsHanded ==
    /\ [][\A i \in 1..MaxConns, side \in Sides :
             (AcceptedStep(i, side) /\ DataAccepted(i, side)) =>
                 LET c == conns[i]
                     this == NodeOf(c, side)
                     peer == PeerOf(c, side)
                     remote == c[side].got
                     locals == NamesOf(GroupsOf(this), remote.your_group_no)
                     remotes == NamesOf(KnownGroups(this, peer), remote.my_group_no)
                 IN /\ Len(conns') = Len(conns)
                    /\ nodeMap' = nodeMap
                    /\ \A n \in Nodes : n # this => handed'[n] = handed[n]
                    /\ (locals # {} /\ remotes # {}) =>
                          /\ conns'[i][side].pc = "up"
                          /\ \E ln \in locals, rn \in remotes :
                                handed'[this] = Append(handed[this],
                                    [local |-> [node_no |-> this,
                                                group_no |-> remote.your_group_no,
                                                group_name |-> ln],
                                     remote |-> [node_no |-> peer,
                                                 group_no |-> remote.my_group_no,
                                                 group_name |-> rn],
                                     transport |-> TransportOf(c, side),
                                     initial_window |-> remote.initial_window])
                    /\ (locals = {} \/ remotes = {}) =>
                          /\ conns'[i][side].pc = "dropped"
                          /\ handed' = handed]_vars
    /\ [][handed' # handed =>
             \E i \in 1..Len(conns), side \in Sides :
                AcceptedStep(i, side) /\ DataAccepted(i, side)]_vars
    /\ [][\A i \in 1..Len(conns), side \in Sides :
             conns[i][side].pc = "dropped" => conns'[i][side].pc = "dropped"]_vars

\* Node 2 has dropped a data connection whose peer it did not know yet, has
\* dropped one that named a group it does not run although the peer's group
\* was known, while the dialer has handed its side over to its group.
DataAcceptedIsHandedWitness ==
    /\ \E i \in 1..Len(conns) :
          conns[i].from = 1 /\ conns[i].acc.pc = "dropped" /\ DataAccepted(i, "acc")
    /\ \E i \in 1..Len(conns) :
          /\ conns[i].from = Foreign /\ conns[i].acc.pc = "dropped" /\ DataAccepted(i, "acc")
          /\ nodeMap[2][Foreign].known
    /\ Len(handed[1]) = 1

\* ---- failures of connections

\* The data connections of node 1's pair (1, 2) that both sides hold over a
\* live socket.
DataEstablished ==
    {j \in DataDialed(1, 1, 2) : Established(j, "dial") /\ Established(j, "acc")}

\* C28: the handler of a DataConnectionFailed starts exactly one dial, on
\* the transport of the failed connection, with the role Data for the same
\* (local group, remote group) pair and the window 100000, and changes
\* nothing else; no reported failure stays unanswered, and with the peer
\* reachable the killed connections end up replaced by connections that both
\* sides hold.
DataFailureIsRedialed ==
    /\ [][\A i \in 1..Len(conns) :
             (conns[i].dial.pc = "dataFailed" /\ conns'[i].dial.pc # "dataFailed") =>
                 /\ Len(conns') = Len(conns) + 1
                 /\ conns'[Len(conns')] =
                        NewDial(conns[i].from, conns[i].to,
                                SwitchToData(conns[i].role.my_group_no,
                                             conns[i].role.your_group_no, 100000))
                 /\ conns'[i] = [conns[i] EXCEPT !.dial.pc = "closed"]
                 /\ \A j \in 1..Len(conns) : j # i => conns'[j] = conns[j]
                 /\ nodeMap' = nodeMap /\ handed' = handed]_vars
    /\ <>[](/\ \A i \in 1..Len(conns) : conns[i].dial.pc # "dataFailed"
            /\ Cardinality(DataEstablished) = 2)

\* Both data connections of the pair were killed and dialed again, one of
\* them twice, and the connections that replaced them are held by both sides.
DataFailureIsRedialedWitness ==
    /\ Cardinality(DataEstablished) = 2
    /\ Cardinality({i \in DataDialed(1, 1, 2) : conns[i].dial.pc = "closed"}) = 3
    /\ \A i \in DataDialed(1, 1, 2) : conns[i].role.initial_window = 100000

\* C29: the handler of a ControlConnectionFailed that carries a transport
\* starts exactly one control dial on that transport, offering the node's
\* own groups, and changes nothing else; the handler of one without a
\* transport, on the node that accepted the connection, starts no dial and
\* changes nothing on the node.
ControlFailureIsRedialedByInitiator ==
    [][\A i \in 1..Len(conns), side \in Sides :
          (conns[i][side].pc = "failed" /\ conns'[i][side].pc # "failed") =>
              LET c == conns[i]
              IN /\ IsControl(c)
                 /\ conns'[i] = [c EXCEPT ![side].pc = "closed"]
                 /\ \A j \in 1..Len(conns) : j # i => conns'[j] = conns[j]
                 /\ nodeMap' = nodeMap /\ handed' = handed
                 /\ side = "dial" =>
                       /\ Len(conns') = Len(conns) + 1
                       /\ conns'[Len(conns')] =
                              NewDial(c.from, c.to, SwitchToControl(GroupsOf(c.from)))
                 /\ side = "acc" => Len(conns') = Len(conns)]_vars

\* Both sides of a control connection that had come up have handled its
\* failure, and its initiator alone has dialed again, once.
ControlFailureIsRedialedByInitiatorWitness ==
    \E i \in 1..Len(conns) :
        /\ IsControl(conns[i])
        /\ Accepted(i, "dial") /\ Accepted(i, "acc")
        /\ conns[i].dial.pc = "closed" /\ conns[i].acc.pc = "closed"
        /\ Cardinality({j \in 1..Len(conns) :
                           /\ j > i /\ IsControl(conns[j])
                           /\ conns[j].from = conns[i].from /\ conns[j].to = conns[i].to}) = 1
        /\ \A j \in 1..Len(conns) :
              (j > i /\ IsControl(conns[j])) => conns[j].from # conns[i].to

\* ---- control_maintenance

\* Connection `i` is a control connection between two Discovery nodes.
BetweenNodes(i) == IsControl(conns[i]) /\ conns[i].from \in Nodes

\* No end of stream is under way in either direction of connection `i`.
LinkUp(i) == ~LinkDown(conns[i], "dial") /\ ~LinkDown(conns[i], "acc")

\* The side waits in a recv for a message that has not arrived.
WaitsForPeer(i, side) ==
    /\ conns[i].loop[side].at \in {"recvPing", "recvPong"}
    /\ conns[i][Inbound(side)] = <<>>

\* The side has completed every round and sleeps.
RoundsDone(i, side) ==
    conns[i].loop[side] = [at |-> "sleep", rounds |-> MaxRounds]

\* The maintenance task of the side ends in the step.
TaskEnds(i, side) == conns[i][side].pc = "up" /\ conns'[i][side].pc = "failed"

\* C30: between two nodes that run control_maintenance over a FIFO link,
\* whichever side starts first, the two loops never wait for each other,
\* every message received is the one the loop expects, the sides are never
\* more than one round apart and, unless the link fails, both complete every
\* round.  A task ends only when a send fails on a dead link or a recv does
\* not yield the expected message (end of stream, an envelope that is not a
\* regular message, or a message out of sequence), and it then yields its
\* one ControlConnectionFailed and runs no further statement.
MaintenanceRoundsComplete ==
    /\ [](\A i \in 1..Len(conns) :
            (BetweenNodes(i) /\ Maintains(i, "dial") /\ Maintains(i, "acc") /\ LinkUp(i)) =>
                /\ ~(WaitsForPeer(i, "dial") /\ WaitsForPeer(i, "acc"))
                /\ conns[i].loop.dial.rounds - conns[i].loop.acc.rounds \in {-1, 0, 1}
                /\ \A side \in Sides :
                      (conns[i].loop[side].at \in {"recvPing", "recvPong"}
                          /\ conns[i][Inbound(side)] # <<>>) =>
                          Head(conns[i][Inbound(side)]) = LoopMessage(conns[i].loop[side].at))
    /\ <>[](\A i \in 1..Len(conns) :
              (BetweenNodes(i) /\ LinkUp(i)) => RoundsDone(i, "dial") /\ RoundsDone(i, "acc"))
    /\ [][\A i \in 1..Len(conns), side \in Sides :
             LET c == conns[i]
                 at == c.loop[side].at
                 in == c[Inbound(side)]
             IN /\ conns'[i][side].pc = "failed" => conns[i][side].pc \in {"up", "failed"}
                /\ conns[i][side].pc = "failed" =>
                      /\ conns'[i][side] = conns[i][side]
                      /\ conns'[i].loop[side] = c.loop[side]
                /\ TaskEnds(i, side) =>
                      /\ IsControl(c)
                      /\ conns'[i].loop = c.loop
                      /\ \/ at \in {"sendPing", "sendPong"} /\ LinkDown(c, side)
                         \/ /\ at \in {"recvPing", "recvPong"}
                            /\ in # <<>> /\ Head(in) # LoopMessage(at)
                            /\ (Head(in).payload = "Regular") =>
                                   conns'[i][side].err =
                                       [text |-> "unexpected message", got |-> Head(in).type,
                                        expected |-> <<LoopMessage(at).type>>]
                /\ (conns'[i].loop[side] # c.loop[side] /\ at \in {"recvPing", "recvPong"}) =>
                      in # <<>> /\ Head(in) = LoopMessage(at)]_vars

\* Both nodes have completed every round of their connection, while node 2
\* has ended the task of the other peer's connection on a Ping that came
\* where a Pong was due.
MaintenanceRoundsCompleteWitness ==
    /\ \E i \in 1..Len(conns) :
          BetweenNodes(i) /\ LinkUp(i) /\ RoundsDone(i, "dial") /\ RoundsDone(i, "acc")
    /\ \E i \in 1..Len(conns) :
          /\ conns[i].from = Foreign
          /\ conns[i].acc.pc = "failed"
          /\ conns[i].acc.err = [text |-> "unexpected message", got |-> "Ping",
                                 expected |-> <<"Pong">>]


\* A receive call of actor `a` completes in this step.
ReceiveReturns(a) ==
    /\ ret' # ret
    /\ ret'.op \in {"recv", "try_recv"}
    /\ ret'.a = a

SpawnedActorFindsItself ==
    (ret.op \in {"recv", "try_recv"} /\ ret.a \in Actors /\ Started(ret.a)) =>
        ret.present


\* The actors that are installed in the book with an open mailbox.
LiveActors == {a \in Actors : a \in book /\ ~closed[a]}

\* Every handle call has returned, no call handed an envelope back (each
\* envelope given to handle so far was accepted by the mailbox of every live
\* actor), and every live actor has drained its mailbox.
SupervisorQuiet ==
    /\ \A t \in Threads : thr[t].pc = "idle"
    /\ \A a \in LiveActors :
          /\ mailbox[a] = <<>>
          /\ \A id \in 1..(nextId - 1) : \E j \in 1..Len(sendLog[a]) : sendLog[a][j] = id

\* C33: whenever the supervisor is quiet, the config installed in every
\* live actor is the supervisor's stored last-known config.
ConfigsConverge ==
    SupervisorQuiet => \A a \in LiveActors : config[a] = supConfig


EntriesAreKept ==
    /\ [][\A k \in Keys :
            objects[k] # 0 =>
                /\ objects'[k] = objects[k]
                /\ spawnCount'[k] = spawnCount[k]
                /\ closed[objects[k]] => closed'[objects[k]]]_vars
    /\ [][\A t \in Threads :
            (thr[t].pc = "lookup" /\ thr'[t] # thr[t] /\ StoredClosed(thr[t].key)) =>
                /\ thr'[t].pc = "trysend"
                /\ thr'[t].obj = objects[thr[t].key]]_vars
    /\ [][\A t \in Threads :
            (thr[t].pc = "trysend" /\ thr'[t] # thr[t] /\ closed[thr[t].obj]) =>
                /\ ret'.op = "handle" /\ ret'.kind = "Closed"
                /\ ret'.env = thr[t].env
                /\ ret'.a = objects[thr[t].key]
                /\ mailbox' = mailbox]_vars
    /\ [][\A t \in Threads :
            (/\ thr[t].pc = "broadcast" /\ thr'[t] # thr[t]
             /\ thr[t].i <= Len(KeyOrder)
             /\ StoredClosed(KeyOrder[thr[t].i])
             /\ CanDuplicate(thr[t].env)) =>
                /\ thr'[t] = [thr[t] EXCEPT !.i = @ + 1]
                /\ mailbox' = mailbox
                /\ ret' = ret]_vars

\* The actor of key "a" closed its mailbox; a later call routed to the key
\* found the actor in the map and reported Closed with its envelope, the
\* key having been spawned once.
EntriesAreKeptWitness ==
    /\ ret.op = "handle" /\ ret.outcome = "Unicast" /\ ret.kind = "Closed"
    /\ ret.key = "a" /\ ~ret.missed /\ ~ret.spawned
    /\ ret.env.msg = "Msg" /\ ret.env.id = nextId - 1
    /\ objects["a"] = ret.a /\ closed[ret.a]
    /\ spawnCount["a"] = 1

====
